---- MODULE Spec2Model ----
(***************************************************************************)
(* Model of the alert ingestion / geofiltering pipeline and the shared TTL *)
(* response cache of src/src/server.js (weather dashboard server).         *)
(*                                                                         *)
(* Conventions                                                             *)
(*  - a JavaScript string is a sequence of one-character strings;          *)
(*  - an optional value (x | null) is a sequence of length 0 (null) or 1;  *)
(*  - a coordinate is an integer number of thousandths of a degree;        *)
(*  - a time is an integer number of milliseconds.                         *)
(***************************************************************************)
EXTENDS Integers, Sequences, FiniteSets, TLC

VARIABLES cache, clock, upstream, reqs, lastResp, calls, writes, users

vars == <<cache, clock, upstream, reqs, lastResp, calls, writes, users>>

(***************************************************************************)
(* Optional values and strings                                             *)
(***************************************************************************)
Null == <<>>

Some(v) == <<v>>

\* JS `x || ''` on an optional string
OrEmpty(o) == IF o = Null THEN <<>> ELSE o[1]

\* JS truthiness of an optional string: neither null nor ''
Truthy(o) == o # Null /\ o[1] # <<>>

Lowers == <<"a", "b", "c", "d", "e", "f", "g", "h", "i", "j", "k", "l", "m",
            "n", "o", "p", "q", "r", "s", "t", "u", "v", "w", "x", "y", "z">>

Uppers == <<"A", "B", "C", "D", "E", "F", "G", "H", "I", "J", "K", "L", "M",
            "N", "O", "P", "Q", "R", "S", "T", "U", "V", "W", "X", "Y", "Z">>

LowerSet == {Lowers[i] : i \in 1..26}

UpperSet == {Uppers[i] : i \in 1..26}

UpperMap == [c \in LowerSet |-> Uppers[CHOOSE i \in 1..26 : Lowers[i] = c]]

LowerMap == [c \in UpperSet |-> Lowers[CHOOSE i \in 1..26 : Uppers[i] = c]]

ToUpper(c) == IF c \in LowerSet THEN UpperMap[c] ELSE c

ToLower(c) == IF c \in UpperSet THEN LowerMap[c] ELSE c

toUpperCase(s) == [i \in 1..Len(s) |-> ToUpper(s[i])]

toLowerCase(s) == [i \in 1..Len(s) |-> ToLower(s[i])]

\* String.prototype.includes
includes(hay, needle) ==
  \E i \in 0..(Len(hay) - Len(needle)) : SubSeq(hay, i + 1, i + Len(needle)) = needle

\* String.prototype.startsWith
startsWith(s, prefix) ==
  Len(s) >= Len(prefix) /\ SubSeq(s, 1, Len(prefix)) = prefix

RECURSIVE TrimLeft(_)
TrimLeft(s) == IF s # <<>> /\ Head(s) = " " THEN TrimLeft(Tail(s)) ELSE s

RECURSIVE TrimRight(_)
TrimRight(s) ==
  IF s # <<>> /\ s[Len(s)] = " " THEN TrimRight(SubSeq(s, 1, Len(s) - 1)) ELSE s

\* String.prototype.trim
trim(s) == TrimRight(TrimLeft(s))

\* the TLA+ string spelled by a sequence of characters
RECURSIVE Str(_)
Str(s) == IF s = <<>> THEN "" ELSE Head(s) \o Str(Tail(s))

(***************************************************************************)
(* Numbers as text                                                         *)
(***************************************************************************)
Abs(n) == IF n < 0 THEN -n ELSE n

Pad2(n) == IF n < 10 THEN "0" \o ToString(n) ELSE ToString(n)

\* Number.prototype.toFixed(2) of m/1000 (inputs never end in an exact half)
toFixed2(m) ==
  LET r == (Abs(m) + 5) \div 10
  IN (IF m < 0 THEN "-" ELSE "") \o ToString(r \div 100) \o "." \o Pad2(r % 100)

\* `${x}` of the number m/1000: shortest decimal, no trailing zeros
NumStr(m) ==
  LET a == Abs(m)
      f == a % 1000
      frac == IF f = 0 THEN ""
              ELSE IF f % 100 = 0 THEN "." \o ToString(f \div 100)
              ELSE IF f % 10 = 0 THEN "." \o Pad2(f \div 10)
              ELSE "." \o (IF f < 100 THEN "0" ELSE "") \o Pad2(f)
  IN (IF m < 0 THEN "-" ELSE "") \o ToString(a \div 1000) \o frac

(***************************************************************************)
(* Program constants                                                       *)
(***************************************************************************)
DEFAULT_TTL_MS == 60 * 1000

AIR_TTL_MS == 10 * 60 * 1000

ALERTS_TTL_MS == 2 * 60 * 1000

DEFAULT_LAT == 33749

DEFAULT_LON == -84388

DEFAULT_UNITS == <<"u", "s">>

\* indices of ALERT_ATOM_URLS
ALERT_ATOM_URLS == <<"Tornado+Warning", "Severe+Thunderstorm+Warning", "Flash+Flood+Warning">>

Feeds == 1..Len(ALERT_ATOM_URLS)

ResultCap == 50

(***************************************************************************)
(* Polygon geometry                                                        *)
(***************************************************************************)
\* Number.isFinite(parseFloat(part)): a token part is an optional number
IsFiniteNum(part) == part # Null

\* a parsePolygon content with two points
parsePolygonTwo(str) ==
  IF str = Null THEN Null
  ELSE LET ok(t) == IsFiniteNum(t[1]) /\ IsFiniteNum(t[2])
           good == SelectSeq(str[1], ok)
           pts == [k \in 1..Len(good) |-> <<good[k][1][1], good[k][2][1]>>]
       IN IF Len(pts) >= 2 THEN Some(pts) ELSE Null

\* A polygon text is an optional sequence of whitespace-separated tokens; a
\* token is the pair of its two comma-separated parts.
parsePolygon(str) ==
  IF str = Null THEN Null
  ELSE LET ok(t) == IsFiniteNum(t[1]) /\ IsFiniteNum(t[2])
           good == SelectSeq(str[1], ok)
           pts == [k \in 1..Len(good) |-> <<good[k][1][1], good[k][2][1]>>]
       IN IF Len(pts) >= 3 THEN Some(pts) ELSE Null

\* Edge (i, j) of the ray-casting loop; the quotient is compared exactly
\* (the divisor is non-zero whenever the first conjunct holds).
Intersect(lat, lon, poly, i, j) ==
  LET xi == poly[i][2]
      yi == poly[i][1]
      xj == poly[j][2]
      yj == poly[j][1]
      d == yj - yi
      num == (xj - xi) * (lat - yi)
  IN /\ (yi > lat) # (yj > lat)
     /\ IF d > 0 THEN (lon - xi) * d < num ELSE (lon - xi) * d > num

\* a test that answers true when any edge is crossed
pointInPolygonAnyEdge(lat, lon, poly) ==
  IF poly = Null \/ Len(poly[1]) < 3 THEN FALSE
  ELSE LET p == poly[1]
           n == Len(p)
           prev(i) == IF i = 1 THEN n ELSE i - 1
       IN \E i \in 1..n : Intersect(lat, lon, p, i, prev(i))

\* poly is the optional point list of an entry
pointInPolygon(lat, lon, poly) ==
  IF poly = Null \/ Len(poly[1]) < 3 THEN FALSE
  ELSE LET p == poly[1]
           n == Len(p)
           prev(i) == IF i = 1 THEN n ELSE i - 1
           hits == {i \in 1..n : Intersect(lat, lon, p, i, prev(i))}
       IN Cardinality(hits) % 2 = 1

(***************************************************************************)
(* Atom entry parser: a document is the sequence of its <entry> blocks, a  *)
(* block the record of the raw texts of its elements.                      *)
(***************************************************************************)
\* get(tag): the trimmed text of the element, or null when absent
get(raw) == IF raw = Null THEN Null ELSE Some(trim(raw[1]))

parseAtom(xml) ==
  [k \in 1..Len(xml) |->
     [id |-> get(xml[k].id),
      title |-> get(xml[k].title),
      summary |-> get(xml[k].summary),
      areaDesc |-> get(xml[k].areaDesc),
      ugc |-> [c \in 1..Len(xml[k].ugc) |-> toUpperCase(xml[k].ugc[c])],
      polygon |-> parsePolygon(xml[k].polygon)]]

(***************************************************************************)
(* Feed text.  A document is the sequence of its markup tokens: opening    *)
(* tags, closing tags and the text between them; the regular expressions   *)
(* of parseAtom are read as predicates on tokens.  Scan turns a document   *)
(* into the blocks parseAtom (above) works on.                             *)
(***************************************************************************)
OpenTag(ns, name) == [t |-> "open", ns |-> ns, name |-> name, s |-> <<>>]

CloseTag(ns, name) == [t |-> "close", ns |-> ns, name |-> name, s |-> <<>>]

Text(s) == [t |-> "text", ns |-> <<>>, name |-> <<>>, s |-> s]

\* the name of a tag as written, prefix included
Qual(tok) == IF tok.ns = <<>> THEN tok.name ELSE tok.ns \o <<":">> \o tok.name

\* the characters of a token
Chars(tok) ==
  CASE tok.t = "open" -> <<"<">> \o Qual(tok) \o <<">">>
    [] tok.t = "close" -> <<"<", "/">> \o Qual(tok) \o <<">">>
    [] OTHER -> tok.s

RECURSIVE Flatten(_)
Flatten(toks) == IF toks = <<>> THEN <<>> ELSE Chars(Head(toks)) \o Flatten(Tail(toks))

Least(S) == CHOOSE i \in S : \A j \in S : i <= j

Greatest(S) == CHOOSE i \in S : \A j \in S : i >= j

\* String.prototype.match with a global pattern `open[\s\S]*?close`: the
\* matches from left to right, none overlapping, as pairs <<from, to>> of
\* token positions.  The scan is outside a match at an opening token exactly
\* when no opening token precedes it or a closing token lies between the
\* previous opening token and it.
Spans(n, opens, closes) ==
  LET outside(i) ==
        LET prev == {k \in opens : k < i}
        IN prev = {} \/ \E j \in closes : Greatest(prev) < j /\ j < i
      start(i) == i \in opens /\ outside(i) /\ \E j \in closes : j > i
      starts == SelectSeq([i \in 1..n |-> i], start)
  IN [k \in 1..Len(starts) |->
        <<starts[k], Least({j \in closes : j > starts[k]})>>]

TagEntry == <<"e", "n", "t", "r", "y">>

\* /<entry[\s\S]*?<\/entry>/gi
IsEntryOpen(tok) == tok.t = "open" /\ startsWith(toLowerCase(Qual(tok)), TagEntry)

IsEntryClose(tok) == tok.t = "close" /\ toLowerCase(Qual(tok)) = TagEntry

matchEntries(xml) ==
  LET sp == Spans(Len(xml), {i \in 1..Len(xml) : IsEntryOpen(xml[i])},
                  {i \in 1..Len(xml) : IsEntryClose(xml[i])})
  IN [k \in 1..Len(sp) |-> SubSeq(xml, sp[k][1], sp[k][2])]

\* <(?:[a-zA-Z0-9_]+:)?TAG[^>]*> : the tag name, with or without its prefix,
\* begins with TAG
OpensTag(tok, tag) ==
  /\ tok.t = "open"
  /\ \/ startsWith(toLowerCase(tok.name), toLowerCase(tag))
     \/ startsWith(toLowerCase(Qual(tok)), toLowerCase(tag))

\* <\/(?:[a-zA-Z0-9_]+:)?TAG>
ClosesTag(tok, tag) == tok.t = "close" /\ toLowerCase(tok.name) = toLowerCase(tag)

\* the character class [CDATA\\[(.*?)\\] of the replace pattern of get
CDataClass == {"C", "D", "A", "T", "\\", "[", "(", ".", "*", "?", ")"}

\* .replace(/<!\\[CDATA\\[(.*?)\\]\\]>/g, '$1'): in a regular expression
\* literal \\ is a backslash, so the pattern is "<!", a backslash, one
\* character of the class, a backslash, "]>"; it has no group and $1 is
\* inserted as written
RECURSIVE ReplaceCData(_)
ReplaceCData(s) ==
  IF Len(s) < 7 THEN s
  ELSE IF /\ s[1] = "<" /\ s[2] = "!" /\ s[3] = "\\" /\ s[4] \in CDataClass
          /\ s[5] = "\\" /\ s[6] = "]" /\ s[7] = ">"
       THEN <<"$", "1">> \o ReplaceCData(SubSeq(s, 8, Len(s)))
       ELSE <<Head(s)>> \o ReplaceCData(Tail(s))

\* b.match(re) of get, m[1] after the replace and before the trim: null when
\* no opening tag is followed by a closing tag
getText(b, tag) ==
  LET closes == {j \in 1..Len(b) : ClosesTag(b[j], tag)}
      opens == {i \in 1..Len(b) : OpensTag(b[i], tag) /\ \E j \in closes : j > i}
  IN IF opens = {} THEN Null
     ELSE LET i == Least(opens)
              j == Least({c \in closes : c > i})
          IN Some(ReplaceCData(Flatten(SubSeq(b, i + 1, j - 1))))

\* String.prototype.split on single separator characters (empty pieces kept)
RECURSIVE split(_, _)
split(s, seps) ==
  LET at == {i \in 1..Len(s) : s[i] \in seps}
  IN IF at = {} THEN <<s>>
     ELSE <<SubSeq(s, 1, Least(at) - 1)>> \o split(SubSeq(s, Least(at) + 1, Len(s)), seps)

\* the non-empty pieces between runs of separators
Pieces(s, seps) == LET full(p) == p # <<>> IN SelectSeq(split(s, seps), full)

RECURSIVE Concat(_)
Concat(ss) == IF ss = <<>> THEN <<>> ELSE Head(ss) \o Concat(Tail(ss))

TagGeocode == <<"g", "e", "o", "c", "o", "d", "e">>

TagValueName == <<"v", "a", "l", "u", "e", "n", "a", "m", "e">>

TagValue == <<"v", "a", "l", "u", "e">>

LabelUGC == <<"U", "G", "C">>

LabelFIPS6 == <<"F", "I", "P", "S", "6">>

\* /<(?:[a-zA-Z0-9_]+:)?geocode[\s\S]*?<\/(?:[a-zA-Z0-9_]+:)?geocode>/gi
matchGeocodes(b) ==
  LET sp == Spans(Len(b), {i \in 1..Len(b) : OpensTag(b[i], TagGeocode)},
                  {i \in 1..Len(b) : ClosesTag(b[i], TagGeocode)})
  IN [k \in 1..Len(sp) |-> SubSeq(b, sp[k][1], sp[k][2])]

\* <valueName>, <value> and their closing tags, written exactly so
IsPlain(tok, t, name) == tok.t = t /\ tok.ns = <<>> /\ toLowerCase(tok.name) = name

\* /<valueName>\s*LABEL\s*<\/valueName>/i matches at token i
LabelAt(g, i, label) ==
  /\ i + 2 <= Len(g)
  /\ IsPlain(g[i], "open", TagValueName)
  /\ g[i + 1].t = "text" /\ trim(toUpperCase(g[i + 1].s)) = label
  /\ IsPlain(g[i + 2], "close", TagValueName)

\* String.prototype.search: the position, counted from 0, of the first of the
\* tokens where the pattern matches, or -1
Search(hits) == IF hits = {} THEN -1 ELSE Least(hits) - 1

\* the <value> texts of the segment of g taken for a label: `after` begins at
\* the label's own <valueName>, which is where the search for the next
\* <valueName> finds its first match
valuesUnder(g, label) ==
  LET idx == Search({i \in 1..Len(g) : LabelAt(g, i, label)})
  IN IF idx < 0 THEN <<>>
     ELSE LET after == SubSeq(g, idx + 1, Len(g))
              stop == Search({i \in 1..Len(after) : IsPlain(after[i], "open", TagValueName)})
              seg == IF stop > 0 THEN SubSeq(after, 1, stop) ELSE after
              sp == Spans(Len(seg), {i \in 1..Len(seg) : IsPlain(seg[i], "open", TagValue)},
                          {i \in 1..Len(seg) : IsPlain(seg[i], "close", TagValue)})
          IN [k \in 1..Len(sp) |-> Flatten(SubSeq(seg, sp[k][1] + 1, sp[k][2] - 1))]

CodeSeparators == {" ", ",", ";"}

\* v.split(/[\s,;]+/g), the empty pieces skipped by `if (c)`
codesOf(vals) == Concat([k \in 1..Len(vals) |-> Pieces(vals[k], CodeSeparators)])

toUpperCaseAll(codes) == [k \in 1..Len(codes) |-> toUpperCase(codes[k])]

\* the geocode loop of parseAtom: codes of every geocode block of the entry,
\* in encounter order, the UGC codes upper-cased
decodeGeocodes(b) ==
  LET gs == matchGeocodes(b)
  IN [ugc |-> toUpperCaseAll(Concat([k \in 1..Len(gs) |->
                                       codesOf(valuesUnder(gs[k], LabelUGC))])),
      fips6 |-> Concat([k \in 1..Len(gs) |-> codesOf(valuesUnder(gs[k], LabelFIPS6))])]

Digits == <<"0", "1", "2", "3", "4", "5", "6", "7", "8", "9">>

DigitSet == {Digits[i] : i \in 1..10}

DigitVal == [c \in DigitSet |-> (CHOOSE i \in 1..10 : Digits[i] = c) - 1]

\* the longest prefix of s made of digits
LeadDigits(s) ==
  LET stops == {i \in 1..Len(s) : s[i] \notin DigitSet}
  IN IF stops = {} THEN s ELSE SubSeq(s, 1, Least(stops) - 1)

RECURSIVE NatOf(_)
NatOf(ds) == IF ds = <<>> THEN 0 ELSE 10 * NatOf(SubSeq(ds, 1, Len(ds) - 1)) + DigitVal[ds[Len(ds)]]

\* parseFloat of a text made of digits, '-', '+', '.' and other characters
\* (no exponent, at most 3 decimals): the number in thousandths given by the
\* longest numeric prefix, or null for NaN; undefined (a missing part) is NaN
parseFloat(part) ==
  IF part = Null THEN Null
  ELSE LET s == TrimLeft(part[1])
           signed == s # <<>> /\ Head(s) \in {"-", "+"}
           u == IF signed THEN Tail(s) ELSE s
           int == LeadDigits(u)
           rest == SubSeq(u, Len(int) + 1, Len(u))
           frac == IF rest # <<>> /\ Head(rest) = "." THEN LeadDigits(Tail(rest)) ELSE <<>>
           f3 == SubSeq(frac \o <<"0", "0", "0">>, 1, 3)
           v == 1000 * NatOf(int) + NatOf(f3)
       IN IF int = <<>> /\ frac = <<>> THEN Null
          ELSE Some(IF signed /\ Head(s) = "-" THEN -v ELSE v)

\* String(str).trim().split(/\s+/).map(p => p.split(',') ...): each token as
\* the pair of its first two parts parsed
polygonTokens(str) ==
  LET toks == split(trim(str), {" "})
      parts(k) == split(toks[k], {","})
      part(k, n) == IF Len(parts(k)) >= n THEN Some(parts(k)[n]) ELSE Null
  IN [k \in 1..Len(toks) |-> <<parseFloat(part(k, 1)), parseFloat(part(k, 2))>>]

\* parsePolygon of a text: `if (!str) return null`, then the tokens
parsePolygonText(str) ==
  parsePolygon(IF Truthy(str) THEN Some(polygonTokens(str[1])) ELSE Null)

TagId == <<"i", "d">>

TagTitle == <<"t", "i", "t", "l", "e">>

TagSummary == <<"s", "u", "m", "m", "a", "r", "y">>

TagAreaDesc == <<"a", "r", "e", "a", "D", "e", "s", "c">>

TagPolygon == <<"p", "o", "l", "y", "g", "o", "n">>

TagUpdated == <<"u", "p", "d", "a", "t", "e", "d">>

TagSent == <<"s", "e", "n", "t">>

\* updated: get('updated') || get('sent') || null
updatedOf(b) ==
  LET u == get(getText(b, TagUpdated))
      s == get(getText(b, TagSent))
  IN IF Truthy(u) THEN u ELSE IF Truthy(s) THEN s ELSE Null

\* the block parseAtom works on: the raw field texts of the entry, its codes,
\* and the tokens of its polygon text
scanEntry(b) ==
  LET poly == get(getText(b, TagPolygon))
  IN [id |-> getText(b, TagId), title |-> getText(b, TagTitle),
      summary |-> getText(b, TagSummary), areaDesc |-> getText(b, TagAreaDesc),
      ugc |-> decodeGeocodes(b).ugc,
      polygon |-> IF Truthy(poly) THEN Some(polygonTokens(poly[1])) ELSE Null]

Scan(xml) == LET bs == matchEntries(xml) IN [k \in 1..Len(bs) |-> scanEntry(bs[k])]

\* parseAtom of a document given as text
parseAtomText(xml) == parseAtom(Scan(xml))

(***************************************************************************)
(* Alert aggregation and filtering                                         *)
(***************************************************************************)
\* for (const xml of xmls) merged.push(...parseAtom(xml))
RECURSIVE MergeFrom(_, _)
MergeFrom(xmls, u) ==
  IF u > Len(xmls) THEN <<>> ELSE parseAtom(xmls[u]) \o MergeFrom(xmls, u + 1)

Merge(xmls) == MergeFrom(xmls, 1)

\* a deduplication in which the last occurrence of an id wins
DedupeLastWins(merged) ==
  LET last(n) == /\ Truthy(merged[n].id)
                 /\ \A k \in (n + 1)..Len(merged) : merged[k].id # merged[n].id
      kept == SelectSeq([n \in 1..Len(merged) |-> n], last)
  IN [k \in 1..Len(kept) |-> merged[kept[k]]]

\* Array.from(byId.values()): an entry enters the map when its id is truthy
\* and the map does not hold that id yet, i.e. no earlier merged entry has it
\* (an earlier entry with the same id has a truthy id too and is in the map);
\* a Map iterates in insertion order.
Dedupe(merged) ==
  LET first(n) == /\ Truthy(merged[n].id)
                  /\ \A k \in 1..(n - 1) : merged[k].id # merged[n].id
      kept == SelectSeq([n \in 1..Len(merged) |-> n], first)
  IN [k \in 1..Len(kept) |-> merged[kept[k]]]

GA == <<"G", "A">>
AL == <<"A", "L">>
FL == <<"F", "L">>
SC == <<"S", "C">>
NC == <<"N", "C">>
ALL == <<"A", "L", "L">>

FullName(state) ==
  CASE state = GA -> Some(<<"G", "E", "O", "R", "G", "I", "A">>)
    [] state = AL -> Some(<<"A", "L", "A", "B", "A", "M", "A">>)
    [] state = FL -> Some(<<"F", "L", "O", "R", "I", "D", "A">>)
    [] state = SC -> Some(<<"S", "O", "U", "T", "H", " ", "C", "A", "R", "O", "L", "I", "N", "A">>)
    [] state = NC -> Some(<<"N", "O", "R", "T", "H", " ", "C", "A", "R", "O", "L", "I", "N", "A">>)
    [] OTHER -> Null

\* `${i.areaDesc || ''} ${i.summary || ''} ${i.title || ''}`.toUpperCase()
Hay(i) ==
  toUpperCase(OrEmpty(i.areaDesc) \o <<" ">> \o OrEmpty(i.summary) \o <<" ">> \o OrEmpty(i.title))

\* a state predicate that accepts an opening parenthesis alone
StateMatchOpenParen(i, state) ==
  LET hay == Hay(i)
      fullName == FullName(state)
  IN \/ \E c \in 1..Len(i.ugc) : startsWith(i.ugc[c], state)
     \/ includes(hay, <<" ">> \o state)
     \/ includes(hay, <<"(">> \o state)
     \/ includes(hay, state \o <<"-">>)
     \/ includes(hay, state \o <<",">>)
     \/ (fullName # Null /\ includes(hay, fullName[1]))

\* the callback of items.filter in the state stage
StateMatch(i, state) ==
  LET hay == Hay(i)
      fullName == FullName(state)
  IN \/ \E c \in 1..Len(i.ugc) : startsWith(i.ugc[c], state)
     \/ includes(hay, <<" ">> \o state)
     \/ includes(hay, <<"(">> \o state \o <<")">>)
     \/ includes(hay, state \o <<"-">>)
     \/ includes(hay, state \o <<",">>)
     \/ (fullName # Null /\ includes(hay, fullName[1]))

StateFilter(items, state) ==
  LET keep(i) == StateMatch(i, state) IN SelectSeq(items, keep)

\* a guard that filters for the sentinel too
FiltersSentinelToo(state) == state # <<>>

\* whether the state stage filters: if (state && state !== 'ALL')
Filters(state) == state # <<>> /\ state # ALL

\* a state stage that keeps every entry
StateKeptAll(deduped, state) == deduped

\* the list after items.filter of the state stage (afterState is its length)
StateKept(deduped, state) ==
  IF Filters(state) THEN StateFilter(deduped, state) ELSE deduped

\* a state stage without the fallback
NoFallback(deduped, kept, state) == kept

\* if (afterState === 0) items = Array.from(byId.values())
Fallback(deduped, kept, state) ==
  IF Filters(state) /\ Len(kept) = 0 THEN deduped ELSE kept

\* the working list leaving the state stage
StateStage(deduped, state) == Fallback(deduped, StateKept(deduped, state), state)

PolyHits(items, lat, lon) ==
  LET hit(i) == i.polygon # Null /\ pointInPolygon(lat, lon, i.polygon)
  IN SelectSeq(items, hit)

\* a polygon stage replacing the list even by an empty subset
PreferAlways(items, polyHits) == polyHits

\* if (afterPoly > 0) items = polyHits
Prefer(items, polyHits) == IF Len(polyHits) > 0 THEN polyHits ELSE items

\* the list leaving the polygon stage
PolyStage(items, lat, lon) == Prefer(items, PolyHits(items, lat, lon))

\* a cap that lets one entry too many through
CapOneMore(items) ==
  SubSeq(items, 1, IF Len(items) < ResultCap + 1 THEN Len(items) ELSE ResultCap + 1)

\* items.slice(0, 50)
Cap(items) == SubSeq(items, 1, IF Len(items) < ResultCap THEN Len(items) ELSE ResultCap)

\* a result whose afterState counts the working list after the fallback
AlertsResultCountsWorking(state, lat, lon, xmls, at) ==
  LET deduped == Dedupe(Merge(xmls))
      working == Fallback(deduped, StateKept(deduped, state), state)
      polyHits == PolyHits(working, lat, lon)
      items == Cap(Prefer(working, polyHits))
  IN [state |-> state,
      point |-> [lat |-> lat, lon |-> lon],
      count |-> Len(items),
      items |-> items,
      fetchedAt |-> at,
      debug |-> [fetched |-> Len(deduped),
                 afterState |-> Len(working),
                 afterPoly |-> Len(polyHits),
                 feeds |-> Len(ALERT_ATOM_URLS)]]

\* the AlertResult built from the fetched documents (lines 1127-1174)
AlertsResult(state, lat, lon, xmls, at) ==
  LET deduped == Dedupe(Merge(xmls))
      kept == StateKept(deduped, state)
      working == Fallback(deduped, kept, state)
      polyHits == PolyHits(working, lat, lon)
      items == Cap(Prefer(working, polyHits))
  IN [state |-> state,
      point |-> [lat |-> lat, lon |-> lon],
      count |-> Len(items),
      items |-> items,
      fetchedAt |-> at,
      debug |-> [fetched |-> Len(deduped),
                 afterState |-> Len(kept),
                 afterPoly |-> Len(polyHits),
                 feeds |-> Len(ALERT_ATOM_URLS)]]

(***************************************************************************)
(* Request parameters.  A query is the record of the raw query-string      *)
(* values; an absent or unparsable value is null.                          *)
(***************************************************************************)
\* parseFloat(req.query.x) with the Number.isFinite fallback
CoordOr(q, dflt) == IF q = Null THEN dflt ELSE q[1]

resolveLat(q) == CoordOr(q.lat, DEFAULT_LAT)

resolveLon(q) == CoordOr(q.lon, DEFAULT_LON)

\* (req.query.units || DEFAULT_UNITS).toLowerCase(), 'imperial' read as 'us'
resolveUnits(q) ==
  LET u == toLowerCase(IF Truthy(q.units) THEN q.units[1] ELSE DEFAULT_UNITS)
  IN IF u = <<"i", "m", "p", "e", "r", "i", "a", "l">> THEN <<"u", "s">> ELSE u

\* String(req.query.state || 'GA').toUpperCase()
resolveState(q) == toUpperCase(IF Truthy(q.state) THEN q.state[1] ELSE GA)

\* a bypass flag that only accepts '1'
resolveNocacheOnlyOne(q) == toLowerCase(OrEmpty(q.nocache)) = <<"1">>

\* String(req.query.nocache || '').toLowerCase() is '1' or 'true'
resolveNocache(q) ==
  LET v == toLowerCase(OrEmpty(q.nocache))
  IN v = <<"1">> \/ v = <<"t", "r", "u", "e">>

(***************************************************************************)
(* Cache keys                                                              *)
(***************************************************************************)
cacheKey(lat, lon, units) ==
  NumStr(lat) \o ":" \o NumStr(lon) \o ":" \o (IF units = <<>> THEN "auto" ELSE Str(units))

AirKey(lat, lon) == "air:" \o NumStr(lat) \o ":" \o NumStr(lon)

\* ALERT_ATOM_URLS.join('|')
evKey == ALERT_ATOM_URLS[1] \o "|" \o ALERT_ATOM_URLS[2] \o "|" \o ALERT_ATOM_URLS[3]

\* an alerts key that leaves the coordinates out
AlertsKeyNoPoint(state, lat, lon) == "alerts:" \o Str(state) \o ":" \o evKey

\* an alerts key that leaves the state out
AlertsKeyNoState(state, lat, lon) ==
  "alerts:" \o toFixed2(lat) \o ":" \o toFixed2(lon) \o ":" \o evKey

AlertsKey(state, lat, lon) ==
  "alerts:" \o Str(state) \o ":" \o toFixed2(lat) \o ":" \o toFixed2(lon) \o ":" \o evKey

(***************************************************************************)
(* The cache map                                                           *)
(***************************************************************************)
\* entry && entry.expiresAt > now
CacheFresh(c, key, now) == key \in DOMAIN c /\ c[key].expiresAt > now

\* a set that keeps an entry already stored under the key
CacheSetIfAbsent(c, key, data, expiresAt) ==
  [k \in DOMAIN c \cup {key} |->
     IF k \in DOMAIN c THEN c[k] ELSE [data |-> data, expiresAt |-> expiresAt]]

\* cache.set(key, { data, expiresAt })
CacheSet(c, key, data, expiresAt) ==
  [k \in DOMAIN c \cup {key} |->
     IF k = key THEN [data |-> data, expiresAt |-> expiresAt] ELSE c[k]]

TTLOf(ep) ==
  CASE ep = "weather" -> DEFAULT_TTL_MS
    [] ep = "air" -> AIR_TTL_MS
    [] ep = "alerts" -> ALERTS_TTL_MS

(***************************************************************************)
(* Upstream providers (thin pass-through fetches)                          *)
(***************************************************************************)
unitsFor(units) == IF units = <<"u", "s">> THEN "F" ELSE "C"

\* what getWeather returns for a successful upstream answer at time `at`
getWeather(lat, lon, units, at) ==
  [provider |-> "open-meteo",
   location |-> [lat |-> lat, lon |-> lon],
   units |-> unitsFor(units),
   time |-> at]

\* what getAirQuality returns for a successful upstream answer at time `at`
getAirQuality(lat, lon, at) ==
  [provider |-> "open-meteo-air",
   location |-> [lat |-> lat, lon |-> lon],
   time |-> at]

(***************************************************************************)
(* Bounds of the model                                                     *)
(***************************************************************************)
\* number of requests received over a run (any number of them in flight at once)
MaxRequests == 2

\* number of clock steps over a run
MaxTicks == 2

\* one clock step
TickMs == 60 * 1000

Reqs == 1..MaxRequests

(***************************************************************************)
(* State                                                                   *)
(*  cache    : the process-wide Map key -> {data, expiresAt}               *)
(*  clock    : Date.now()                                                  *)
(*  upstream : the documents the three alert feeds currently serve         *)
(*  reqs     : the handler invocations in flight, suspended at their await *)
(*  lastResp : the most recent HTTP response (n counts the responses)      *)
(*  calls    : per key, how many times upstream was asked (history)        *)
(*  writes   : per key, the time of the last cache.set and their number    *)
(*  users    : the records of the user store (users.json)                  *)
(***************************************************************************)
Idle == [pc |-> "idle"]

\* how the upstream fetches of an invocation settled: the order in which they
\* answered with success, and the one that failed (0: none)
Settled(order, failed) == [order |-> order, failed |-> failed]

NoneSettled(nfetch) == Settled(<<>>, 0)

Done == [pc |-> "done"]

NoResp ==
  [n |-> 0, req |-> 0, ep |-> "none", status |-> 0, body |-> [error |-> "none"],
   hit |-> FALSE, key |-> "", now |-> 0, nocache |-> FALSE, state |-> <<>>,
   lat |-> 0, lon |-> 0, units |-> <<>>, got |-> NoneSettled(0), age |-> Null]

Busy(r) == reqs[r].pc = "fetching"

\* requests are numbered in the order they arrive
Arrives(r) == reqs[r].pc = "idle" /\ \A p \in 1..(r - 1) : reqs[p].pc # "idle"

\* clock time elapsed since the entry now stored under key was written
AgeOf(key) == IF key \in DOMAIN writes THEN Some(clock - writes[key].at) ELSE Null

Bump(f, key) ==
  [k \in DOMAIN f \cup {key} |-> IF k \in DOMAIN f /\ k # key THEN f[k]
                                 ELSE IF k \in DOMAIN f THEN f[k] + 1 ELSE 1]

Wrote(key) ==
  [k \in DOMAIN writes \cup {key} |->
     IF k = key
     THEN [at |-> clock, n |-> IF k \in DOMAIN writes THEN writes[k].n + 1 ELSE 1]
     ELSE writes[k]]

\* res.json / res.status(500).json of the invocation described by ctx
Respond(r, ctx, status, body, hit) ==
  [n |-> lastResp.n + 1, req |-> r, ep |-> ctx.ep, status |-> status, body |-> body,
   hit |-> hit, key |-> ctx.key, now |-> ctx.now, nocache |-> ctx.nocache,
   state |-> ctx.state, lat |-> ctx.lat, lon |-> ctx.lon, units |-> ctx.units,
   got |-> ctx.got, age |-> ctx.age]

\* the invocation's locals up to the cache read
Ctx(ep, key, state, lat, lon, units, nocache, nfetch) ==
  [pc |-> "fetching", ep |-> ep, key |-> key, now |-> clock, nocache |-> nocache,
   state |-> state, lat |-> lat, lon |-> lon, units |-> units,
   got |-> NoneSettled(nfetch), nfetch |-> nfetch, age |-> AgeOf(key)]

\* a prefix that deletes the entry it finds expired
BeginEvicting(r, ctx, readsCache) ==
  /\ Arrives(r)
  /\ IF readsCache /\ CacheFresh(cache, ctx.key, ctx.now)
     THEN /\ lastResp' = Respond(r, ctx, 200, cache[ctx.key].data, TRUE)
          /\ reqs' = [reqs EXCEPT ![r] = Done]
          /\ UNCHANGED calls
     ELSE /\ reqs' = [reqs EXCEPT ![r] = ctx]
          /\ calls' = Bump(calls, ctx.key)
          /\ UNCHANGED lastResp
  /\ cache' = IF readsCache /\ ~CacheFresh(cache, ctx.key, ctx.now)
              THEN [k \in DOMAIN cache \ {ctx.key} |-> cache[k]]
              ELSE cache
  /\ UNCHANGED <<clock, upstream, writes, users>>

\* the synchronous prefix of a handler: serve a fresh entry and return, or
\* suspend on the upstream fetches
Begin(r, ctx, readsCache) ==
  /\ Arrives(r)
  /\ IF readsCache /\ CacheFresh(cache, ctx.key, ctx.now)
     THEN /\ lastResp' = Respond(r, ctx, 200, cache[ctx.key].data, TRUE)
          /\ reqs' = [reqs EXCEPT ![r] = Done]
          /\ UNCHANGED calls
     ELSE /\ reqs' = [reqs EXCEPT ![r] = ctx]
          /\ calls' = Bump(calls, ctx.key)
          /\ UNCHANGED lastResp
  /\ UNCHANGED <<cache, clock, upstream, writes, users>>

\* app.get('/api/weather') up to the await
WeatherStart(r, q) ==
  LET lat == resolveLat(q)
      lon == resolveLon(q)
      units == resolveUnits(q)
  IN Begin(r, Ctx("weather", cacheKey(lat, lon, units), <<>>, lat, lon, units, FALSE, 1), TRUE)

\* app.get('/api/air') up to the await
AirStart(r, q) ==
  LET lat == resolveLat(q)
      lon == resolveLon(q)
  IN Begin(r, Ctx("air", AirKey(lat, lon), <<>>, lat, lon, <<>>, FALSE, 1), TRUE)

\* app.get('/api/alerts') up to the await of Promise.all
AlertsStart(r, q) ==
  LET state == resolveState(q)
      lat == resolveLat(q)
      lon == resolveLon(q)
      nocache == resolveNocache(q)
  IN Begin(r, Ctx("alerts", AlertsKey(state, lat, lon), state, lat, lon, <<>>, nocache, 3),
           ~nocache)

\* an await that yields the bodies in the order the fetches answered
PromiseAllAsCompleted(order) == [k \in 1..Len(order) |-> upstream[order[k]]]

\* await Promise.all(urls.map(...)): the bodies in the order of the URL list,
\* whatever the order in which the fetches answered
PromiseAll(order) == [u \in 1..Len(order) |-> upstream[u]]

\* the body a handler answers with once its upstream data is there
FreshData(ctx) ==
  CASE ctx.ep = "weather" -> getWeather(ctx.lat, ctx.lon, ctx.units, clock)
    [] ctx.ep = "air" -> getAirQuality(ctx.lat, ctx.lon, clock)
    [] ctx.ep = "alerts" ->
         AlertsResult(ctx.state, ctx.lat, ctx.lon, PromiseAll(ctx.got.order), clock)

\* whether the handler stores its fresh result (alerts: if (!nocache))
StoresResult(ctx) == ~ctx.nocache

\* the continuation after the await: build the result, store it, answer 200
Finish(r, ctx) ==
  LET data == FreshData(ctx)
  IN /\ IF StoresResult(ctx)
        THEN /\ cache' = CacheSet(cache, ctx.key, data, ctx.now + TTLOf(ctx.ep))
             /\ writes' = Wrote(ctx.key)
        ELSE UNCHANGED <<cache, writes>>
     /\ lastResp' = Respond(r, ctx, 200, data, FALSE)
     /\ reqs' = [reqs EXCEPT ![r] = Done]

ErrorBody(ep) ==
  CASE ep = "weather" -> [error |-> "Failed to retrieve weather data"]
    [] ep = "air" -> [error |-> "Failed to retrieve air quality"]
    [] ep = "alerts" -> [error |-> "Failed to retrieve alerts"]

\* a catch block that answers and leaves the handler waiting
CatchKeepsWaiting(r, ctx) ==
  /\ lastResp' = Respond(r, ctx, 500, ErrorBody(ctx.ep), FALSE)
  /\ UNCHANGED <<reqs, cache, writes>>

\* a catch block that answers with the alerts of the feeds that succeeded
CatchDegraded(r, ctx) ==
  /\ lastResp' = Respond(r, ctx, 200,
                         AlertsResult(ctx.state, ctx.lat, ctx.lon,
                                      [k \in 1..Len(ctx.got.order) |-> upstream[ctx.got.order[k]]],
                                      clock),
                         FALSE)
  /\ reqs' = [reqs EXCEPT ![r] = Done]
  /\ UNCHANGED <<cache, writes>>

\* the catch block: answer 500, touch nothing else
Catch(r, ctx) ==
  /\ lastResp' = Respond(r, ctx, 500, ErrorBody(ctx.ep), FALSE)
  /\ reqs' = [reqs EXCEPT ![r] = Done]
  /\ UNCHANGED <<cache, writes>>

Orders(n) == {o \in [1..n -> 1..n] : \A i, j \in 1..n : i # j => o[i] # o[j]}

\* the awaited fetches of invocation r have all answered with success, in the
\* order `order`: the handler resumes after its await
Resume(r, order) ==
  /\ Busy(r)
  /\ Len(order) = reqs[r].nfetch
  /\ Finish(r, [reqs[r] EXCEPT !.got = Settled(order, 0)])
  /\ UNCHANGED <<clock, upstream, calls, users>>

\* fetch u of invocation r answers with a non-success status or rejects after
\* the fetches in `before` have answered with success: the await throws,
\* whatever the remaining fetches do later
Reject(r, u, before) ==
  /\ Busy(r)
  /\ u \in 1..reqs[r].nfetch
  /\ \A k \in 1..Len(before) : before[k] \in 1..reqs[r].nfetch /\ before[k] # u
  /\ Catch(r, [reqs[r] EXCEPT !.got = Settled(before, u)])
  /\ UNCHANGED <<clock, upstream, calls, users>>

\* the orders in which the three feed fetches can answer
FeedOrders == Orders(3)

\* the ways some of the other fetches can answer before fetch u fails
Befores == {<<>>, <<1>>, <<2>>, <<3>>, <<1, 2>>, <<2, 1>>, <<1, 3>>, <<3, 1>>, <<2, 3>>, <<3, 2>>}

Tick ==
  /\ clock < MaxTicks * TickMs
  /\ clock' = clock + TickMs
  /\ UNCHANGED <<cache, upstream, reqs, lastResp, calls, writes, users>>

(***************************************************************************)
(* Inputs: feed documents and queries                                      *)
(***************************************************************************)
\* longest hand-written feed document
MaxFeedLen == 2

\* length of the long feed document
BulkLen == 80

SeqsUpTo(S, n) == UNION {[1..k -> S] : k \in 0..n}

Pt(la, lo) == <<Some(la), Some(lo)>>

\* polygon texts: a square around the default point, a square away from it,
\* and a text whose middle token is malformed
SquareIn == Some(<<Pt(33000, -85000), Pt(33000, -84000), Pt(34000, -84000), Pt(34000, -85000)>>)

SquareOut == Some(<<Pt(40000, -75000), Pt(40000, -74000), Pt(41000, -74000), Pt(41000, -75000)>>)

BadPoly == Some(<<Pt(33000, -85000), <<Some(33000), Null>>, Pt(34000, -84000)>>)

Block(id, title, summary, areaDesc, ugc, polygon) ==
  [id |-> id, title |-> title, summary |-> summary, areaDesc |-> areaDesc,
   ugc |-> ugc, polygon |-> polygon]

TxtFultonGA == Some(<<"F", "u", "l", "t", "o", "n", ",", " ", "G", "A">>)

TxtDallasTX == Some(<<"D", "a", "l", "l", "a", "s", ",", " ", "T", "X">>)

FilterBlocks ==
  { Block(Some(<<"a">>), Some(<<"T", "1">>), Null, TxtFultonGA, <<>>, SquareIn),
    Block(Some(<<"b">>), Null, Null, Null, <<<<"g", "a", "c", "1">>>>, BadPoly),
    Block(Some(<<"c">>), Null, Null, TxtDallasTX, <<<<"T", "X", "C", "1">>>>, SquareIn),
    Block(Null, Some(<<"T", "3">>), Null, TxtFultonGA, <<>>, SquareIn),
    Block(Some(<<" ">>), Null, Null, TxtFultonGA, <<>>, Null) }

\* an entry of another feed that repeats id "a" with other fields
DupBlock == Block(Some(<<" ", "a", " ">>), Some(<<"T", "2">>), Null, TxtDallasTX, <<>>, SquareOut)

\* a document of n entries with distinct ids, no state text and no polygon
Bulk(n) ==
  [k \in 1..n |-> Block(Some(<<"n", ToString(k)>>), Null, Null, Null, <<>>, Null)]

\* hand-written documents of every shape on the first feed, and the long
\* documents on the third next to at most one entry on each other feed
FilterUpstreams ==
  { <<f1, f2, <<>>>> :
      f1 \in SeqsUpTo(FilterBlocks, MaxFeedLen),
      f2 \in {<<>>, <<DupBlock>>} }
  \cup
  { <<f1, f2, f3>> :
      f1 \in SeqsUpTo(FilterBlocks, 1),
      f2 \in {<<>>, <<DupBlock>>},
      f3 \in {Bulk(ResultCap - 1), Bulk(BulkLen)} }

AlertQuery(state, lat, lon, nocache) ==
  [state |-> state, lat |-> lat, lon |-> lon, nocache |-> nocache]

FilterQueries ==
  { AlertQuery(st, la, Null, Null) :
      st \in {Some(<<"g", "a">>), Some(<<"T", "X">>), Some(<<"a", "l", "l">>)},
      la \in {Null, Some(20000)} }

\* what the feeds serve and what is asked in the runs with concurrent
\* /api/alerts requests
SysUpstreams ==
  { << <<Block(Some(<<"a">>), Some(<<"T", "1">>), Null, TxtFultonGA, <<>>, SquareIn)>>,
       <<>>,
       <<Block(Some(<<"c">>), Null, Null, TxtDallasTX, <<>>, Null)>> >> }

AlertQueries ==
  { AlertQuery(Some(<<"g", "a">>), Null, Null, Null),
    AlertQuery(Null, Some(33751), Some(-84388), Some(<<"0">>)),
    AlertQuery(Some(<<"G", "A">>), Null, Null, Some(<<"1">>)) }

WeatherQueries ==
  { [lat |-> Null, lon |-> Null, units |-> u] :
      u \in {Null, Some(<<"I", "m", "p", "e", "r", "i", "a", "l">>), Some(<<"m", "e", "t", "r", "i", "c">>)} }

AirQueries == { [lat |-> la, lon |-> Null] : la \in {Null, Some(33751)} }

(***************************************************************************)
(* Specifications                                                          *)
(***************************************************************************)
InitWith(ups) ==
  /\ cache = <<>>
  /\ clock = 0
  /\ upstream \in ups
  /\ reqs = [r \in Reqs |-> Idle]
  /\ lastResp = NoResp
  /\ calls = <<>>
  /\ writes = <<>>
  /\ users = <<>>

\* concurrent /api/alerts requests against the shared cache; the ways the
\* fetches of one request settle are a sample here and all of them in
\* SpecFilter
SomeOrders == {<<1, 2, 3>>, <<3, 1, 2>>}

SomeFailures == {<<1, <<>>>>, <<3, <<1, 2>>>>}

Init == InitWith(SysUpstreams)

Next ==
  \/ \E r \in Reqs, q \in AlertQueries : AlertsStart(r, q)
  \/ \E r \in Reqs, o \in SomeOrders : Resume(r, o)
  \/ \E r \in Reqs, f \in SomeFailures : Reject(r, f[1], f[2])
  \/ Tick

Spec == Init /\ [][Next]_vars

\* one /api/alerts request over a wide range of feed documents
InitFilter == InitWith(FilterUpstreams)

NextFilter ==
  \/ \E q \in FilterQueries : AlertsStart(1, q)
  \/ \E o \in FeedOrders : Resume(1, o)
  \/ \E u \in Feeds, b \in Befores : Reject(1, u, b)

SpecFilter == InitFilter /\ [][NextFilter]_vars

(***************************************************************************)
(* Properties of the aggregation pipeline (SpecFilter)                     *)
(***************************************************************************)
\* the last response is a freshly computed 200 of /api/alerts
FreshAlerts ==
  lastResp.n > 0 /\ lastResp.ep = "alerts" /\ lastResp.status = 200 /\ ~lastResp.hit

\* the deduplicated entries of the documents the feeds serve
Deduped == Dedupe(Merge(upstream))

Contains(lat, lon, e) == e.polygon # Null /\ pointInPolygon(lat, lon, e.polygon)

NoneMatches(state) == \A k \in 1..Len(Deduped) : ~StateMatch(Deduped[k], state)

\* C1: for state # ALL, a non-empty deduplicated list gives a non-empty items
\* list, and when no entry satisfies the state predicate the result is the
\* one computed from the full deduplicated list.
C1_StateFallback ==
  (FreshAlerts /\ lastResp.state # ALL /\ Deduped # <<>>) =>
     /\ lastResp.body.items # <<>>
     /\ NoneMatches(lastResp.state) =>
          lastResp.body.items = Cap(PolyStage(Deduped, lastResp.lat, lastResp.lon))

C1_Witness ==
  /\ FreshAlerts /\ lastResp.state # ALL /\ Deduped # <<>>
  /\ NoneMatches(lastResp.state)
  /\ lastResp.body.debug.afterState = 0
  /\ lastResp.body.count = Len(Deduped)

\* C2: with W the list leaving the state stage, the result before the cap is
\* the entries of W whose polygon contains the point, in W's order, when
\* there is one, and W otherwise.
C2_PolygonPrecedence ==
  FreshAlerts =>
    LET W == StateStage(Deduped, lastResp.state)
        in(e) == Contains(lastResp.lat, lastResp.lon, e)
        H == SelectSeq(W, in)
    IN /\ lastResp.body.items = Cap(IF H # <<>> THEN H ELSE W)
       /\ lastResp.body.debug.afterPoly = Len(H)

C2_Witness ==
  /\ FreshAlerts
  /\ LET W == StateStage(Deduped, lastResp.state)
     IN /\ lastResp.body.count >= 1
        /\ lastResp.body.count < Len(W)
        /\ Len(W) < ResultCap
        /\ \A k \in 1..lastResp.body.count :
             Contains(lastResp.lat, lastResp.lon, lastResp.body.items[k])

\* C3: items has at most 50 entries, count is its length, and it is the first
\* min(50, n) entries of the n-entry filtered list in that list's order.
C3_ResultCap ==
  FreshAlerts =>
    LET F == PolyStage(StateStage(Deduped, lastResp.state), lastResp.lat, lastResp.lon)
        m == IF Len(F) < 50 THEN Len(F) ELSE 50
    IN /\ Len(lastResp.body.items) <= 50
       /\ lastResp.body.count = Len(lastResp.body.items)
       /\ Len(lastResp.body.items) = m
       /\ \A k \in 1..m : lastResp.body.items[k] = F[k]

C3_Witness ==
  /\ FreshAlerts
  /\ Len(PolyStage(StateStage(Deduped, lastResp.state), lastResp.lat, lastResp.lon)) = BulkLen
  /\ Len(lastResp.body.items) = 50
  /\ lastResp.body.count = 50

\* C4: no two items share an id, no item has a null or empty id, and each
\* item is the first entry of the merged feeds that carries its id.
C4_Dedup ==
  FreshAlerts =>
    LET items == lastResp.body.items
        M == Merge(upstream)
    IN \A k \in 1..Len(items) :
         /\ items[k].id # Null
         /\ items[k].id[1] # <<>>
         /\ \A j \in 1..Len(items) : j # k => items[j].id # items[k].id
         /\ \E i \in 1..Len(M) :
              /\ M[i] = items[k]
              /\ \A h \in 1..(i - 1) : M[h].id # items[k].id

C4_Witness ==
  /\ FreshAlerts
  /\ LET items == lastResp.body.items
         M == Merge(upstream)
     IN /\ \E i, j \in 1..Len(M), k \in 1..Len(items) :
             i < j /\ M[i].id = M[j].id /\ M[i] # M[j] /\ items[k] = M[i]
        /\ \E i \in 1..Len(M) : M[i].id = Null \/ M[i].id = Some(<<>>)

\* positions in the merged list of the entries that match the requested
\* state (any entry when the state is ALL) and whose polygon contains the
\* query point
Matching ==
  LET M == Merge(upstream)
  IN {k \in 1..Len(M) :
        /\ lastResp.state = ALL \/ StateMatch(M[k], lastResp.state)
        /\ Contains(lastResp.lat, lastResp.lon, M[k])}

\* at most one feed serves entries
OthersEmpty == Cardinality({u \in Feeds : upstream[u] # <<>>}) <= 1

\* entry k of the merged list has a non-empty id that no earlier one has
FirstOfItsId(k) ==
  LET M == Merge(upstream)
  IN Truthy(M[k].id) /\ \A h \in 1..(k - 1) : M[h].id # M[k].id

OnlyItem(k) ==
  /\ lastResp.body.items = <<Merge(upstream)[k]>>
  /\ lastResp.body.count = 1
  /\ lastResp.body.debug.afterPoly = 1

\* C11 as stated: when exactly one entry of the feeds matches the state and
\* has a polygon containing the point, the other feeds being empty, the
\* response is that one entry, with count 1 and debug.afterPoly 1.
C11_AsStated ==
  (FreshAlerts /\ OthersEmpty /\ Cardinality(Matching) = 1) =>
     \A k \in Matching : OnlyItem(k)

\* C11 amended: the same, for a matching entry that has a non-empty id not
\* carried by an earlier entry of the merged list.
C11_EndToEnd ==
  (FreshAlerts /\ OthersEmpty /\ Cardinality(Matching) = 1) =>
     \A k \in Matching : FirstOfItsId(k) => OnlyItem(k)

\* the matching entry comes with another entry that matches the state only
\* and one that contains the point only
C11_Witness ==
  /\ FreshAlerts /\ OthersEmpty /\ Cardinality(Matching) = 1
  /\ lastResp.state # ALL
  /\ \A k \in Matching : FirstOfItsId(k) /\ OnlyItem(k)
  /\ LET M == Merge(upstream)
     IN \E j \in 1..Len(M) :
          j \notin Matching /\ Truthy(M[j].id)
          /\ (StateMatch(M[j], lastResp.state) \/ Contains(lastResp.lat, lastResp.lon, M[j]))

\* C16 as stated: debug.fetched is the length of the merged entry list of
\* all feeds, before deduplication.
C16_FetchedIsMerged ==
  FreshAlerts => lastResp.body.debug.fetched = Len(Merge(upstream))

\* C17: whatever the order in which the fetches of a request complete, the
\* items of its response are those computed from the feed bodies merged in
\* the order of the feed URL list, and so is the number of deduplicated
\* entries.
C17_MergeOrder ==
  FreshAlerts =>
    /\ lastResp.body.items =
         Cap(PolyStage(StateStage(Deduped, lastResp.state), lastResp.lat, lastResp.lon))
    /\ lastResp.body.debug.fetched = Len(Deduped)

\* the second feed answered before the first, both carry the same id with
\* different fields, and the entry of the first feed is the one returned
C17_Witness ==
  /\ FreshAlerts
  /\ \E i, j \in 1..3 : i < j /\ lastResp.got.order[i] = 2 /\ lastResp.got.order[j] = 1
  /\ \E a \in 1..Len(upstream[1]), b \in 1..Len(upstream[2]), k \in 1..Len(lastResp.body.items) :
       /\ parseAtom(upstream[1])[a].id = parseAtom(upstream[2])[b].id
       /\ parseAtom(upstream[1])[a] # parseAtom(upstream[2])[b]
       /\ lastResp.body.items[k] = parseAtom(upstream[1])[a]

(***************************************************************************)
(* The state predicate (SpecState): one-entry documents over a range of    *)
(* texts and UGC lists                                                     *)
(***************************************************************************)
StateTexts ==
  { <<"G", "e", "o", "r", "g", "i", "a">>,
    <<"A", "l", "a", "b", "a", "m", "a">>,
    <<"S", "o", "u", "t", "h", " ", "C", "a", "r", "o", "l", "i", "n", "a">>,
    <<"T", "e", "x", "a", "s">>,
    <<"C", "o", "b", "b", " ", "(", "G", "A", ")">>,
    <<"C", "o", "b", "b", " ", "(", "G", "A", "/", "A", "L", ")">>,
    <<"G", "A", "-", "A", "L", " ", "l", "i", "n", "e">>,
    <<"C", "o", "b", "b", ",", "G", "A", ",", "U", "S">>,
    <<"C", "o", "b", "b", " ", "G", "A">>,
    <<"G", "A">>,
    <<"B", "E", "G", "A">>,
    <<>> }

StateUgcs ==
  { <<>>,
    <<<<"g", "a", "z", "1">>>>,
    <<<<"T", "X", "C", "1">>, <<"A", "L", "C", "2">>>>,
    <<<<"X", "G", "A", "1">>>> }

StateBlocks ==
  { Block(Some(<<"a">>), Null, Null, Some(t), ugc, Null) : t \in StateTexts, ugc \in StateUgcs }
  \cup
  { Block(Some(<<"a">>), Some(t), Some(<<"x">>), Null, ugc, Null) : t \in StateTexts, ugc \in StateUgcs }

StateUpstreams == { <<<<b>>, <<>>, <<>>>> : b \in StateBlocks }

StateQueries ==
  { AlertQuery(Some(st), Null, Null, Null) :
      st \in {<<"g", "a">>, <<"A", "L">>, <<"s", "c">>, <<"T", "X">>, <<"a", "l", "l">>} }

InitState == InitWith(StateUpstreams)

NextState ==
  \/ \E q \in StateQueries : AlertsStart(1, q)
  \/ \E o \in FeedOrders : Resume(1, o)
  \/ \E u \in Feeds, b \in Befores : Reject(1, u, b)

SpecState == InitState /\ [][NextState]_vars

\* the text the state predicate searches: the three fields joined by single
\* spaces, upper-cased
SearchText(e) ==
  toUpperCase(OrEmpty(e.areaDesc) \o <<" ">> \o OrEmpty(e.summary) \o <<" ">> \o OrEmpty(e.title))

HasFullName(e, S) ==
  \/ S = GA /\ includes(SearchText(e), <<"G", "E", "O", "R", "G", "I", "A">>)
  \/ S = AL /\ includes(SearchText(e), <<"A", "L", "A", "B", "A", "M", "A">>)
  \/ S = FL /\ includes(SearchText(e), <<"F", "L", "O", "R", "I", "D", "A">>)
  \/ S = SC /\ includes(SearchText(e), <<"S", "O", "U", "T", "H", " ", "C", "A", "R", "O", "L", "I", "N", "A">>)
  \/ S = NC /\ includes(SearchText(e), <<"N", "O", "R", "T", "H", " ", "C", "A", "R", "O", "L", "I", "N", "A">>)

HasUgcPrefix(e, S) == \E c \in 1..Len(e.ugc) : startsWith(e.ugc[c], S)

\* the predicate as the claim words it: S preceded by ' ' or by '(' ...
KeptAsClaimed(e, S) ==
  \/ HasUgcPrefix(e, S)
  \/ includes(SearchText(e), <<" ">> \o S)
  \/ includes(SearchText(e), <<"(">> \o S)
  \/ includes(SearchText(e), S \o <<"-">>)
  \/ includes(SearchText(e), S \o <<",">>)
  \/ HasFullName(e, S)

\* ... and with S enclosed in parentheses
KeptAmended(e, S) ==
  \/ HasUgcPrefix(e, S)
  \/ includes(SearchText(e), <<" ">> \o S)
  \/ includes(SearchText(e), <<"(">> \o S \o <<")">>)
  \/ includes(SearchText(e), S \o <<"-">>)
  \/ includes(SearchText(e), S \o <<",">>)
  \/ HasFullName(e, S)

\* C10 as stated: for S # ALL the entries the state filter keeps are those
\* with a UGC code starting with S, or whose text contains S preceded by a
\* space or by '(' or followed by '-' or ',', or the full name of S.
C10_AsStated ==
  (FreshAlerts /\ lastResp.state # ALL) =>
     lastResp.body.debug.afterState =
       Cardinality({k \in 1..Len(Deduped) : KeptAsClaimed(Deduped[k], lastResp.state)})

\* C10 amended: as above, with "preceded by '('" replaced by "enclosed in
\* parentheses, '(S)'".
C10_StatePredicate ==
  (FreshAlerts /\ lastResp.state # ALL) =>
     lastResp.body.debug.afterState =
       Cardinality({k \in 1..Len(Deduped) : KeptAmended(Deduped[k], lastResp.state)})

\* an entry kept only because its text holds "(S)"
C10_Witness ==
  /\ FreshAlerts /\ lastResp.state = GA
  /\ lastResp.body.debug.afterState = 1
  /\ Len(Deduped) = 1
  /\ ~HasUgcPrefix(Deduped[1], GA)
  /\ ~HasFullName(Deduped[1], GA)
  /\ ~includes(SearchText(Deduped[1]), <<" ", "G", "A">>)
  /\ ~includes(SearchText(Deduped[1]), <<"G", "A", "-">>)
  /\ ~includes(SearchText(Deduped[1]), <<"G", "A", ",">>)

(***************************************************************************)
(* The three cached endpoints, one request at a time (SpecKeys)            *)
(***************************************************************************)
KeysAlertQueries ==
  { AlertQuery(Some(<<"g", "a">>), Null, Null, Null),
    AlertQuery(Null, Some(33751), Some(-84388), Null),
    AlertQuery(Some(<<"a", "l">>), Null, Null, Null) }

NoneInFlight == \A p \in Reqs : ~Busy(p)

NextKeys ==
  \/ \E r \in Reqs, q \in WeatherQueries : NoneInFlight /\ WeatherStart(r, q)
  \/ \E r \in Reqs, q \in AirQueries : NoneInFlight /\ AirStart(r, q)
  \/ \E r \in Reqs, q \in KeysAlertQueries : NoneInFlight /\ AlertsStart(r, q)
  \/ \E r \in Reqs, o \in {<<1>>, <<1, 2, 3>>} : Resume(r, o)
  \/ \E r \in Reqs : Reject(r, 1, <<>>)
  \/ Tick

SpecKeys == Init /\ [][NextKeys]_vars

(***************************************************************************)
(* Properties of the cache                                                 *)
(***************************************************************************)
\* C5: when a feed fetch of an /api/alerts request fails, the request answers
\* with the 500 error body, issues no further upstream fetch, ends, and
\* leaves the cache map as it was.
C5_TransportFailure ==
  [][(lastResp'.n = lastResp.n + 1 /\ lastResp'.got.failed # 0) =>
       /\ lastResp'.status = 500
       /\ lastResp'.body = [error |-> "Failed to retrieve alerts"]
       /\ reqs'[lastResp'.req].pc = "done"
       /\ calls' = calls
       /\ cache' = cache]_vars

\* a failure after two feeds succeeded, with an expired entry under the key
C5_Witness ==
  /\ lastResp.status = 500
  /\ lastResp.got.failed # 0
  /\ Len(lastResp.got.order) = 2
  /\ lastResp.key \in DOMAIN cache
  /\ cache[lastResp.key].expiresAt <= lastResp.now

\* C6 as stated: a non-bypass request that reads the cache before the TTL has
\* elapsed since the entry was written is answered from the cache (so a
\* request that missed found no entry, or one written at least a TTL ago),
\* and a request answered from the cache read no later than a TTL after the
\* write.
C6_TTLFromWrite ==
  /\ \A r \in Reqs :
       (Busy(r) /\ ~reqs[r].nocache) =>
          (reqs[r].age = Null \/ reqs[r].age[1] >= TTLOf(reqs[r].ep))
  /\ lastResp.hit => lastResp.age[1] <= TTLOf(lastResp.ep)

BodyFor(body, ep, state, units, lat, lon) ==
  CASE ep = "alerts" ->
         /\ "items" \in DOMAIN body
         /\ body.state = state
         /\ body.point = [lat |-> lat, lon |-> lon]
    [] ep = "weather" ->
         /\ "provider" \in DOMAIN body
         /\ body.provider = "open-meteo"
         /\ body.units = unitsFor(units)
         /\ body.location = [lat |-> lat, lon |-> lon]
    [] ep = "air" ->
         /\ "provider" \in DOMAIN body
         /\ body.provider = "open-meteo-air"
         /\ body.location = [lat |-> lat, lon |-> lon]

\* the same, the coordinates of an alerts body compared after rounding to two
\* decimals
BodyForRounded(body, ep, state, units, lat, lon) ==
  IF ep = "alerts"
  THEN /\ "items" \in DOMAIN body
       /\ body.state = state
       /\ toFixed2(body.point.lat) = toFixed2(lat)
       /\ toFixed2(body.point.lon) = toFixed2(lon)
  ELSE BodyFor(body, ep, state, units, lat, lon)

\* C8 as stated: a cache hit returns data written by a request of the same
\* endpoint with the same state, units and coordinates.
C8_AsStated ==
  lastResp.hit =>
    BodyFor(lastResp.body, lastResp.ep, lastResp.state, lastResp.units,
            lastResp.lat, lastResp.lon)

\* C8 amended: a cache hit returns data written by a request of the same
\* endpoint with the same state and units and, for weather and air, the same
\* coordinates, for alerts, coordinates equal after rounding to 2 decimals.
C8_KeyIsolation ==
  lastResp.hit =>
    BodyForRounded(lastResp.body, lastResp.ep, lastResp.state, lastResp.units,
                   lastResp.lat, lastResp.lon)

\* an alerts hit served with the body of a request for another point
C8_Witness ==
  /\ lastResp.hit
  /\ lastResp.ep = "alerts"
  /\ lastResp.body.point.lat # lastResp.lat
  /\ toFixed2(lastResp.body.point.lat) = toFixed2(lastResp.lat)

\* C9: a request that missed and stores its result overwrites whatever is
\* under its key: after it answers, the cache holds its body with the
\* expiry it computed, also when another request for the key wrote first.
C9_LastWriteWins ==
  (lastResp.n > 0 /\ lastResp.status = 200 /\ ~lastResp.hit /\ ~lastResp.nocache) =>
     /\ lastResp.key \in DOMAIN cache
     /\ cache[lastResp.key] =
          [data |-> lastResp.body, expiresAt |-> lastResp.now + TTLOf(lastResp.ep)]

\* two requests for one key both read before either wrote, both fetched
\* upstream, and the second write has just happened
C9_Witness ==
  /\ lastResp.status = 200 /\ ~lastResp.hit /\ ~lastResp.nocache
  /\ lastResp.age = Null
  /\ lastResp.key \in DOMAIN writes
  /\ writes[lastResp.key].n = 2
  /\ calls[lastResp.key] = 2
  /\ cache[lastResp.key].data = lastResp.body

(***************************************************************************)
(* The Atom entry parser on feed text (SpecParse)                          *)
(***************************************************************************)
\* most entries of a hand-written feed text
MaxEntries == 2

\* most geocode blocks of an entry
MaxGeocodes == 2

\* <ns:name>text</ns:name>
El(ns, name, text) == <<OpenTag(ns, name), Text(text), CloseTag(ns, name)>>

Wrap(ns, name, toks) == <<OpenTag(ns, name)>> \o toks \o <<CloseTag(ns, name)>>

NsCap == <<"c", "a", "p">>

NsAtom == <<"a", "t", "o", "m">>

TagIdentifier == <<"i", "d", "e", "n", "t", "i", "f", "i", "e", "r">>

\* <![CDATA[T4]]>
CDataT4 == <<"<", "!", "[", "C", "D", "A", "T", "A", "[", "T", "4", "]", "]", ">">>

\* entries that differ in where and how their <id> is written, an entry with
\* a CDATA title and both <updated> and <sent>, and one with <sent> alone
EntryTexts ==
  { Wrap(<<>>, TagEntry, El(<<>>, TagId, <<"a">>) \o El(<<>>, TagTitle, <<"T", "1">>)),
    Wrap(<<>>, TagEntry, El(<<>>, TagId, <<" ", "b", " ">>)),
    Wrap(<<>>, TagEntry, El(<<>>, TagTitle, <<"T", "3">>) \o El(<<>>, TagId, <<"c">>)),
    Wrap(<<>>, TagEntry, El(NsCap, TagIdentifier, <<"X">>) \o El(<<>>, TagId, <<"d">>)),
    Wrap(<<>>, <<"E", "N", "T", "R", "Y">>, El(<<>>, <<"I", "D">>, <<"f">>)),
    Wrap(<<>>, TagEntry, El(NsAtom, TagId, <<"g">>) \o El(NsCap, TagAreaDesc, <<"G", "A">>)),
    Wrap(<<>>, TagEntry, El(<<>>, TagId, <<"a">>) \o El(<<>>, TagTitle, <<"T", "2">>)),
    Wrap(<<>>, TagEntry, El(<<>>, TagId, <<"h">>) \o El(<<>>, TagTitle, CDataT4)
                         \o El(<<>>, TagUpdated, <<" ", "U", "1">>) \o El(NsCap, TagSent, <<"S", "0">>)),
    Wrap(<<>>, TagEntry, El(<<>>, TagId, <<"i">>) \o El(NsCap, TagSent, <<"S", "1">>)) }

\* a feed: its own id and title, then the entries
FeedText(entries) ==
  Wrap(<<>>, <<"f", "e", "e", "d">>,
       El(<<>>, TagId, <<"F">>) \o El(<<>>, TagTitle, <<"N", "W", "S">>) \o Concat(entries))

ValueName(label) == El(<<>>, <<"v", "a", "l", "u", "e", "N", "a", "m", "e">>, label)

Value(text) == El(<<>>, TagValue, text)

CodeGAZ1 == <<"G", "A", "Z", "0", "0", "1">>

CodeGAZ23 == <<"G", "A", "Z", "0", "0", "2", " ", "G", "A", "Z", "0", "0", "3">>

CodeFips == <<"0", "1", "3", "1", "2", "1">>

CodeLower == <<"g", "a", "c", "1", "2", "1", ";", "g", "a", "c", "0", "8", "9", ",", " ">>

\* geocode blocks: UGC alone, UGC before and after FIPS6, FIPS6 alone, another
\* value name, separators inside a value
GeocodeTexts ==
  { Wrap(NsCap, TagGeocode, ValueName(LabelUGC) \o Value(CodeGAZ1) \o Value(CodeGAZ23)),
    Wrap(NsCap, TagGeocode, ValueName(LabelUGC) \o Value(CodeGAZ1)
                            \o ValueName(LabelFIPS6) \o Value(CodeFips)),
    Wrap(NsCap, TagGeocode, ValueName(LabelFIPS6) \o Value(CodeFips)
                            \o ValueName(<<" ", "u", "g", "c", " ">>) \o Value(CodeLower)),
    Wrap(<<>>, TagGeocode, ValueName(LabelFIPS6) \o Value(CodeFips)),
    Wrap(NsCap, TagGeocode, ValueName(<<"S", "A", "M", "E">>) \o Value(CodeFips)),
    Wrap(NsCap, TagGeocode, <<>>) }

GeoEntryText(gs) == Wrap(<<>>, TagEntry, El(<<>>, TagId, <<"a">>) \o Concat(gs))

ParseTexts ==
  { FeedText(es) : es \in SeqsUpTo(EntryTexts, MaxEntries) }
  \cup { FeedText(<<GeoEntryText(gs)>>) : gs \in SeqsUpTo(GeocodeTexts, MaxGeocodes) }

\* what parseAtom makes of the text the first feed serves, and the codes of
\* each of its entries
Parsed(xml) ==
  LET bs == matchEntries(xml)
  IN [entries |-> parseAtomText(xml),
      geo |-> [k \in 1..Len(bs) |-> decodeGeocodes(bs[k])],
      updated |-> [k \in 1..Len(bs) |-> updatedOf(bs[k])]]

ParseFeed ==
  /\ lastResp' = [NoResp EXCEPT !.n = 1, !.ep = "parseAtom", !.body = Parsed(upstream[1])]
  /\ UNCHANGED <<cache, clock, upstream, reqs, calls, writes, users>>

InitParse == InitWith({<<x>> : x \in ParseTexts})

NextParse == ParseFeed

SpecParse == InitParse /\ [][NextParse]_vars

\* the elements of a token sequence named exactly `name` (any prefix, any
\* case), as pairs <<from, to>> of the positions of their tags
Elements(toks, name) ==
  Spans(Len(toks),
        {i \in 1..Len(toks) : toks[i].t = "open" /\ toLowerCase(toks[i].name) = toLowerCase(name)},
        {i \in 1..Len(toks) : toks[i].t = "close" /\ toLowerCase(toks[i].name) = toLowerCase(name)})

\* the text of the <id> element of each <entry> element of the document
BlockIds(xml) ==
  LET es == Elements(xml, TagEntry)
      idOf(k) ==
        LET b == SubSeq(xml, es[k][1], es[k][2])
            ids == Elements(b, TagId)
        IN IF ids = <<>> THEN Null
           ELSE Some(trim(Flatten(SubSeq(b, ids[1][1] + 1, ids[1][2] - 1))))
  IN [k \in 1..Len(es) |-> idOf(k)]

Unique(ids) ==
  /\ \A k \in 1..Len(ids) : ids[k] # Null
  /\ \A j, k \in 1..Len(ids) : j # k => ids[j] # ids[k]

ParsedFeed == lastResp.n > 0 /\ lastResp.ep = "parseAtom"

\* C12 as stated: for a document of N entry blocks each with a unique <id>,
\* parseAtom returns N records whose ids are the block ids in document
\* order (none for a document without entry block).
C12_EntryIds ==
  (ParsedFeed /\ Unique(BlockIds(upstream[1]))) =>
     LET es == lastResp.body.entries
     IN [k \in 1..Len(es) |-> es[k].id] = BlockIds(upstream[1])

\* the values that follow the <valueName> of the label up to the next
\* <valueName> or the end of the geocode block g, split on separators
CodesUnder(g, label) ==
  LET names == {i \in 1..Len(g) : IsPlain(g[i], "open", TagValueName)}
      mine == {i \in names : LabelAt(g, i, label)}
  IN IF mine = {} THEN <<>>
     ELSE LET i == Least(mine)
              later == {j \in names : j > i}
              end == IF later = {} THEN Len(g) ELSE Least(later) - 1
              seg == SubSeq(g, i + 3, end)
              vs == Elements(seg, TagValue)
          IN Concat([k \in 1..Len(vs) |->
                       Pieces(Flatten(SubSeq(seg, vs[k][1] + 1, vs[k][2] - 1)), CodeSeparators)])

\* the codes of an entry block by the rule of the claim
GeoAsClaimed(b) ==
  LET gs == Elements(b, TagGeocode)
      g(k) == SubSeq(b, gs[k][1], gs[k][2])
  IN [ugc |-> toUpperCaseAll(Concat([k \in 1..Len(gs) |-> CodesUnder(g(k), LabelUGC)])),
      fips6 |-> Concat([k \in 1..Len(gs) |-> CodesUnder(g(k), LabelFIPS6)])]

\* C13 as stated: the UGC list of an entry is the codes of the <value>
\* elements between the UGC <valueName> and the next <valueName> or the block
\* end, split on whitespace, commas or semicolons, upper-cased, in encounter
\* order; likewise FIPS6 without upper-casing.
C13_GeocodeBoundary ==
  ParsedFeed =>
     LET bs == matchEntries(upstream[1])
     IN \A k \in 1..Len(bs) : lastResp.body.geo[k] = GeoAsClaimed(bs[k])

(***************************************************************************)
(* The polygon functions called on their own (SpecPolygon)                 *)
(***************************************************************************)
\* most tokens of a polygon text
MaxPolyTokens == 4

Square == <<<<0, 0>>, <<0, 10>>, <<10, 10>>, <<10, 0>>>>

\* the square, the same clockwise, a triangle, and lists that are no polygon
TestPolygons ==
  { Some(Square),
    Some(<<<<10, 0>>, <<10, 10>>, <<0, 10>>, <<0, 0>>>>),
    Some(<<<<0, 0>>, <<0, 10>>, <<10, 0>>>>),
    Some(<<<<0, 0>>, <<10, 10>>>>),
    Some(<<<<5, 5>>>>),
    Some(<<>>),
    Null }

TestCoords == {-5, 0, 5, 10, 20}

\* polygon tokens as written, with the pair each stands for (null: no pair)
PolyTokenTexts ==
  << [text |-> <<"1", ",", "2">>, pt |-> Some(<<1000, 2000>>)],
     [text |-> <<"3", ",", "x">>, pt |-> Null],
     [text |-> <<"5", ",", "6">>, pt |-> Some(<<5000, 6000>>)],
     [text |-> <<"7">>, pt |-> Null],
     [text |-> <<"-", "8", ".", "5", ",", "9">>, pt |-> Some(<<-8500, 9000>>)],
     [text |-> <<",", "4">>, pt |-> Null],
     [text |-> <<"1", ",", "9", "x">>, pt |-> Some(<<1000, 9000>>)] >>

RECURSIVE Join(_, _)
Join(texts, sep) ==
  IF texts = <<>> THEN <<>>
  ELSE IF Len(texts) = 1 THEN texts[1]
  ELSE texts[1] \o sep \o Join(Tail(texts), sep)

PolyText(toks, sep) == Join([k \in 1..Len(toks) |-> PolyTokenTexts[toks[k]].text], sep)

CallPointInPolygon(lat, lon, poly) ==
  /\ lastResp' = [NoResp EXCEPT !.n = 1, !.ep = "pointInPolygon", !.lat = lat, !.lon = lon,
                                !.body = [poly |-> poly,
                                          inside |-> pointInPolygon(lat, lon, poly)]]
  /\ UNCHANGED <<cache, clock, upstream, reqs, calls, writes, users>>

\* parsePolygon of a text, and the polygon filter on an entry that carries
\* the result; toks records which tokens the text was written from
CallParsePolygon(toks, str, lat, lon) ==
  /\ lastResp' = [NoResp EXCEPT !.n = 1, !.ep = "parsePolygon", !.lat = lat, !.lon = lon,
                                !.body = [toks |-> toks, text |-> str,
                                          poly |-> parsePolygonText(str),
                                          hits |-> Len(PolyHits(<<[polygon |-> parsePolygonText(str)]>>,
                                                                lat, lon))]]
  /\ UNCHANGED <<cache, clock, upstream, reqs, calls, writes, users>>

InitPolygon == InitWith({<<>>})

\* parsePolygon is called once, pointInPolygon any number of times
NextPolygon ==
  \/ /\ lastResp.ep \in {"none", "pointInPolygon"}
     /\ \E lat \in TestCoords, lon \in TestCoords, poly \in TestPolygons :
          CallPointInPolygon(lat, lon, poly)
  \/ /\ lastResp.ep = "none"
     /\ \E toks \in SeqsUpTo(1..Len(PolyTokenTexts), MaxPolyTokens),
           sep \in {<<" ">>, <<" ", " ">>}, lat \in {3000}, lon \in {5000, 20000} :
          CallParsePolygon(toks, Some(<<" ">> \o PolyText(toks, sep)), lat, lon)
  \/ /\ lastResp.ep = "none"
     /\ \E lon \in {5000, 20000} : CallParsePolygon(<<>>, Null, 3000, lon)

SpecPolygon == InitPolygon /\ [][NextPolygon]_vars

CalledPointInPolygon == lastResp.n > 0 /\ lastResp.ep = "pointInPolygon"

\* what C14 says of the value returned
C14_Values ==
  CalledPointInPolygon =>
    LET p == lastResp.body.poly
        la == lastResp.lat
        lo == lastResp.lon
        r == lastResp.body.inside
    IN /\ r \in BOOLEAN
       /\ (p = Null \/ Len(p[1]) < 3) => r = FALSE
       /\ p = Some(Square) =>
            /\ (0 < la /\ la < 10 /\ 0 < lo /\ lo < 10) => r = TRUE
            /\ (la < 0 \/ la > 10 \/ lo < 0 \/ lo > 10) => r = FALSE

\* a call that repeats the arguments of the call before it
C14_SameCall ==
  /\ CalledPointInPolygon /\ lastResp'.ep = "pointInPolygon"
  /\ lastResp'.lat = lastResp.lat /\ lastResp'.lon = lastResp.lon
  /\ lastResp'.body.poly = lastResp.body.poly

\* C14: for the square [[0,0],[0,10],[10,10],[10,0]] pointInPolygon is true
\* inside, as at (5,5), and false outside, as at (20,20); it is false for a
\* list of fewer than 3 points and for a non-array; it always returns a
\* boolean, also on an edge such as (0,5), and a repeated call returns the
\* same boolean.
C14_PointInPolygon ==
  /\ []C14_Values
  /\ [][C14_SameCall => lastResp'.body.inside = lastResp.body.inside]_vars

C14_Witness ==
  /\ CalledPointInPolygon
  /\ lastResp.body.poly = Some(Square)
  /\ lastResp.lat = 0 /\ lastResp.lon = 5
  /\ lastResp.body.inside \in BOOLEAN

\* the pairs the tokens of the call stand for, in order
PairsOf(toks) ==
  LET good(k) == PolyTokenTexts[k].pt # Null
      kept == SelectSeq(toks, good)
  IN [k \in 1..Len(kept) |-> PolyTokenTexts[kept[k]].pt[1]]

TextOneTwoThreeX == <<"1", ",", "2", " ", "3", ",", "x", " ", "5", ",", "6">>

\* C15: parsePolygon drops the tokens that are not two finite numbers and
\* returns the remaining points in order if at least 3 remain, otherwise
\* null (null for "1,2 3,x 5,6"); a null polygon is never a polygon hit.
C15_ParsePolygon ==
  (lastResp.n > 0 /\ lastResp.ep = "parsePolygon") =>
    LET b == lastResp.body
    IN /\ b.poly = IF Len(PairsOf(b.toks)) >= 3 THEN Some(PairsOf(b.toks)) ELSE Null
       /\ (b.text # Null /\ trim(b.text[1]) = TextOneTwoThreeX) => b.poly = Null
       /\ b.poly = Null => b.hits = 0

\* a text with a malformed token between valid ones that still gives a
\* polygon, which contains the query point
C15_Witness ==
  /\ lastResp.n > 0 /\ lastResp.ep = "parsePolygon"
  /\ Len(lastResp.body.toks) = 4
  /\ \E k \in 2..3 : PolyTokenTexts[lastResp.body.toks[k]].pt = Null
  /\ lastResp.body.poly # Null
  /\ lastResp.body.hits = 1

\* a step in which a handler starts: it computes its key and, unless it
\* bypasses the cache, looks the key up
ReadStep == \E r \in Reqs : reqs[r].pc = "idle" /\ reqs'[r].pc # "idle"

\* C18: the step in which a handler looks up the cache (hit, miss on an
\* absent key, miss on an expired entry) leaves the cache map unchanged, and
\* no step removes a key.
C18_ReadsLeaveCache ==
  [][/\ ReadStep => cache' = cache
     /\ DOMAIN cache \subseteq DOMAIN cache']_vars

\* a request has missed on an expired entry, which is still in the map
C18_Witness ==
  \E r \in Reqs :
    /\ Busy(r) /\ ~reqs[r].nocache
    /\ reqs[r].key \in DOMAIN cache
    /\ cache[reqs[r].key].expiresAt <= reqs[r].now

\* C19 as stated: the entry a request writes expires one TTL of its endpoint
\* after the time of the write, so it is not yet expired when written.
C19_TTLFromInsertion ==
  (lastResp.n > 0 /\ lastResp.status = 200 /\ ~lastResp.hit /\ ~lastResp.nocache) =>
     /\ cache[lastResp.key].expiresAt = writes[lastResp.key].at + TTLOf(lastResp.ep)
     /\ cache[lastResp.key].expiresAt > writes[lastResp.key].at

\* whether a cached body was computed by the given endpoint for the given
\* state and units and for coordinates that round to the same two decimals
BodyNear(body, ep, state, units, lat, lon) ==
  CASE ep = "alerts" ->
         /\ "items" \in DOMAIN body
         /\ body.state = state
         /\ toFixed2(body.point.lat) = toFixed2(lat)
         /\ toFixed2(body.point.lon) = toFixed2(lon)
    [] ep = "weather" ->
         /\ "provider" \in DOMAIN body
         /\ body.provider = "open-meteo"
         /\ body.units = unitsFor(units)
         /\ toFixed2(body.location.lat) = toFixed2(lat)
         /\ toFixed2(body.location.lon) = toFixed2(lon)
    [] ep = "air" ->
         /\ "provider" \in DOMAIN body
         /\ body.provider = "open-meteo-air"
         /\ toFixed2(body.location.lat) = toFixed2(lat)
         /\ toFixed2(body.location.lon) = toFixed2(lon)

\* C20 as stated: a request whose endpoint, state, units and coordinates
\* rounded to 2 decimals are those of an entry that has not expired is a
\* cache hit: no such request is waiting on an upstream fetch.
C20_RoundedKeys ==
  \A r \in Reqs :
    (Busy(r) /\ ~reqs[r].nocache) =>
       ~\E k \in DOMAIN cache :
           /\ cache[k].expiresAt > reqs[r].now
           /\ BodyNear(cache[k].data, reqs[r].ep, reqs[r].state, reqs[r].units,
                       reqs[r].lat, reqs[r].lon)

(***************************************************************************)
(* Expiry and eviction                                                     *)
(***************************************************************************)
\* C21 as stated: a lookup misses exactly when the key is absent or
\* now > expiresAt: a request that looked its key up and went on to fetch
\* found no entry or one with expiresAt < now, and a request answered from
\* the cache read at now <= expiresAt.
C21_ExpiryBoundary ==
  /\ \A r \in Reqs :
       (Busy(r) /\ ~reqs[r].nocache /\ reqs[r].key \in DOMAIN cache) =>
          reqs[r].now > cache[reqs[r].key].expiresAt
  /\ lastResp.hit => lastResp.now <= cache[lastResp.key].expiresAt

\* the request read its key when an entry was stored under it and went on to
\* fetch: the entry had expired
ReadExpired(ctx) == ~ctx.nocache /\ ctx.age # Null

\* C22 as stated: once a request has read its key past the entry's expiresAt
\* the expired entry is no longer in the cache, also after the request's
\* upstream fetch has failed.
C22_AsStated ==
  /\ \A r \in Reqs :
       (Busy(r) /\ ReadExpired(reqs[r])) => reqs[r].key \notin DOMAIN cache
  /\ (lastResp.status = 500 /\ ReadExpired(lastResp)) => lastResp.key \notin DOMAIN cache

\* C22 amended: an expired entry is never removed: the read that finds it
\* expired is a miss and leaves it in the map, and it is still there,
\* expired, while the request fetches and after its fetch has failed.
C22_ExpiredStays ==
  /\ \A r \in Reqs :
       (Busy(r) /\ ReadExpired(reqs[r])) =>
          /\ reqs[r].key \in DOMAIN cache
          /\ cache[reqs[r].key].expiresAt <= reqs[r].now
  /\ (lastResp.status = 500 /\ ReadExpired(lastResp)) =>
          /\ lastResp.key \in DOMAIN cache
          /\ cache[lastResp.key].expiresAt <= lastResp.now

\* a request read its key after the entry's expiresAt and its fetch failed
C22_Witness ==
  /\ lastResp.status = 500
  /\ ReadExpired(lastResp)
  /\ lastResp.key \in DOMAIN cache
  /\ cache[lastResp.key].expiresAt < lastResp.now

(***************************************************************************)
(* The state stage and its counts (SpecFilter)                             *)
(***************************************************************************)
\* C23: when the requested state, upper-cased, is ALL, the state filter is
\* not applied: debug.afterState is the number of deduplicated entries and
\* the polygon stage works on every deduplicated entry.
C23_SentinelAll ==
  (FreshAlerts /\ lastResp.state = ALL) =>
     /\ lastResp.body.debug.afterState = Len(Deduped)
     /\ lastResp.body.debug.afterPoly = Len(PolyHits(Deduped, lastResp.lat, lastResp.lon))
     /\ lastResp.body.items = Cap(PolyStage(Deduped, lastResp.lat, lastResp.lon))

\* a request for state "all" over several entries none of which satisfies
\* the state predicate for ALL, some of them with a polygon around the point
C23_Witness ==
  /\ FreshAlerts
  /\ lastResp.state = ALL
  /\ Len(Deduped) > 1
  /\ NoneMatches(ALL)
  /\ lastResp.body.debug.afterPoly > 0
  /\ lastResp.body.debug.afterPoly < Len(Deduped)

\* the fallback of the state stage was taken for the last response
FellBack == Filters(lastResp.state) /\ NoneMatches(lastResp.state) /\ Deduped # <<>>

\* C24 as stated: debug.afterState is the length of the working list that
\* leaves the state stage, fallback included, so afterState >= afterPoly and
\* afterState >= count.
C24_AsStated ==
  FreshAlerts =>
     /\ lastResp.body.debug.afterState = Len(StateStage(Deduped, lastResp.state))
     /\ lastResp.body.debug.afterState >= lastResp.body.debug.afterPoly
     /\ lastResp.body.debug.afterState >= lastResp.body.count

\* C24 amended: debug.afterState is the number of entries the state filter
\* kept, counted before the fallback; without the fallback it is the length of
\* the working list and bounds afterPoly and count, with the fallback it is 0
\* while the working list is the whole deduplicated list.
C24_AfterState ==
  FreshAlerts =>
     /\ lastResp.body.debug.afterState = Len(StateKept(Deduped, lastResp.state))
     /\ lastResp.body.debug.afterPoly =
          Len(PolyHits(StateStage(Deduped, lastResp.state), lastResp.lat, lastResp.lon))
     /\ ~FellBack =>
          /\ lastResp.body.debug.afterState = Len(StateStage(Deduped, lastResp.state))
          /\ lastResp.body.debug.afterState >= lastResp.body.debug.afterPoly
          /\ lastResp.body.debug.afterState >= lastResp.body.count
     /\ FellBack =>
          /\ lastResp.body.debug.afterState = 0
          /\ Len(StateStage(Deduped, lastResp.state)) = Len(Deduped)
          /\ lastResp.body.count = Len(Cap(PolyStage(Deduped, lastResp.lat, lastResp.lon)))

\* the fallback was taken and afterState is below both afterPoly and count
C24_Witness ==
  /\ FreshAlerts
  /\ FellBack
  /\ lastResp.body.debug.afterState < lastResp.body.debug.afterPoly
  /\ lastResp.body.debug.afterState < lastResp.body.count

(***************************************************************************)
(* Scalar fields of an entry (SpecParse)                                   *)
(***************************************************************************)
CDataOpen == <<"<", "!", "[", "C", "D", "A", "T", "A", "[">>

\* the text with every <![CDATA[ ... ]]> wrapper replaced by what it wraps
RECURSIVE StripCData(_)
StripCData(s) ==
  LET ends == {i \in (Len(CDataOpen) + 1)..(Len(s) - 2) :
                 s[i] = "]" /\ s[i + 1] = "]" /\ s[i + 2] = ">"}
  IN IF s = <<>> THEN s
     ELSE IF startsWith(s, CDataOpen) /\ ends # {}
          THEN SubSeq(s, Len(CDataOpen) + 1, Least(ends) - 1)
                 \o StripCData(SubSeq(s, Least(ends) + 3, Len(s)))
          ELSE <<Head(s)>> \o StripCData(Tail(s))

\* the field of an entry block by the rule of the claim: the text between
\* the tags of the first element of that name, wrappers removed, trimmed;
\* null without such an element
FieldAsClaimed(b, tag) ==
  LET es == Elements(b, tag)
  IN IF es = <<>> THEN Null
     ELSE Some(trim(StripCData(Flatten(SubSeq(b, es[1][1] + 1, es[1][2] - 1)))))

UpdatedAsClaimed(b) ==
  IF Elements(b, TagUpdated) # <<>> THEN FieldAsClaimed(b, TagUpdated)
  ELSE FieldAsClaimed(b, TagSent)

\* C25 as stated: each scalar field of an entry is the trimmed text between
\* its tags with any CDATA wrapper removed, null when the tag pair is absent,
\* and updated is the value of sent when there is no updated element.
C25_FieldExtraction ==
  ParsedFeed =>
     LET bs == matchEntries(upstream[1])
         es == lastResp.body.entries
     IN \A k \in 1..Len(bs) :
          /\ es[k].title = FieldAsClaimed(bs[k], TagTitle)
          /\ es[k].summary = FieldAsClaimed(bs[k], TagSummary)
          /\ es[k].areaDesc = FieldAsClaimed(bs[k], TagAreaDesc)
          /\ lastResp.body.updated[k] = UpdatedAsClaimed(bs[k])

(***************************************************************************)
(* Query strings of /api/alerts (SpecQuery): the values are the texts of   *)
(* the query string, null when the parameter is missing                    *)
(***************************************************************************)
QueryTexts ==
  { [state |-> st, lat |-> Null, lon |-> Null, nocache |-> nc] :
      st \in {Null, Some(<<>>), Some(<<"A", "l">>)},
      nc \in {Null, Some(<<"1">>), Some(<<"T", "R", "U", "E">>), Some(<<"y", "e", "s">>)} }
  \cup
  { [state |-> Some(<<"g", "a">>), lat |-> la, lon |-> lo, nocache |-> Some(<<"0">>)] :
      la \in {Null, Some(<<"3", "3", ".", "7", "5", "1">>), Some(<<"a", "b", "c">>)},
      lo \in {Null, Some(<<"-", "8", "4", ".", "4", "x">>)} }
  \cup
  { [state |-> Null, lat |-> Some(<<"3", "3", ".", "7", "5", "1">>),
     lon |-> Some(<<"-", "8", "4", ".", "4", "x">>), nocache |-> Some(<<"t", "r", "u", "e">>)] }

\* parseFloat(req.query.lat), parseFloat(req.query.lon)
parseQuery(raw) ==
  [state |-> raw.state, lat |-> parseFloat(raw.lat), lon |-> parseFloat(raw.lon),
   nocache |-> raw.nocache]

AlertsStartText(r, raw) == AlertsStart(r, parseQuery(raw))

NextQuery ==
  \/ \E r \in Reqs, raw \in QueryTexts : NoneInFlight /\ AlertsStartText(r, raw)
  \/ \E r \in Reqs : Resume(r, <<1, 2, 3>>)
  \/ Tick

SpecQuery == Init /\ [][NextQuery]_vars

\* the resolved inputs by the rule of the claim
StateAsClaimed(raw) ==
  IF raw.state = Null \/ raw.state[1] = <<>> THEN GA ELSE toUpperCase(raw.state[1])

CoordAsClaimed(text, dflt) ==
  LET v == parseFloat(text) IN IF v = Null THEN dflt ELSE v[1]

BypassAsClaimed(raw) ==
  /\ raw.nocache # Null
  /\ toLowerCase(raw.nocache[1]) \in {<<"1">>, <<"t", "r", "u", "e">>}

\* C26: a request with query raw runs with state, lat, lon and the bypass flag
\* resolved as claimed: it is answered from the cache exactly when it does
\* not bypass and a fresh entry is stored under its key, else it fetches with
\* those values; they stay the request's until it answers, and a freshly
\* computed response carries them in state and point.
C26_InputResolution ==
  /\ [][\A r \in Reqs, raw \in QueryTexts :
          (reqs[r].pc = "idle" /\ reqs'[r].pc # "idle" /\ AlertsStartText(r, raw)) =>
             LET st == StateAsClaimed(raw)
                 la == CoordAsClaimed(raw.lat, DEFAULT_LAT)
                 lo == CoordAsClaimed(raw.lon, DEFAULT_LON)
                 by == BypassAsClaimed(raw)
             IN IF ~by /\ CacheFresh(cache, AlertsKey(st, la, lo), clock)
                THEN /\ reqs'[r].pc = "done"
                     /\ lastResp'.hit
                     /\ lastResp'.req = r
                ELSE /\ reqs'[r].pc = "fetching"
                     /\ reqs'[r].state = st
                     /\ reqs'[r].lat = la
                     /\ reqs'[r].lon = lo
                     /\ reqs'[r].nocache = by]_vars
  /\ [][\A r \in Reqs :
          (Busy(r) /\ ~Busy(r)') =>
             /\ lastResp'.req = r
             /\ lastResp'.state = reqs[r].state
             /\ lastResp'.lat = reqs[r].lat
             /\ lastResp'.lon = reqs[r].lon]_vars
  /\ [][(FreshAlerts =>
           /\ lastResp.body.state = lastResp.state
           /\ lastResp.body.point = [lat |-> lastResp.lat, lon |-> lastResp.lon])']_vars

\* a bypassing request with a given latitude and longitude and the default
\* state was answered with a fresh result while a fresh entry was stored
\* under its key
C26_Witness ==
  /\ FreshAlerts
  /\ lastResp.nocache
  /\ CacheFresh(cache, lastResp.key, lastResp.now)
  /\ lastResp.body.state = GA
  /\ lastResp.body.point.lat # DEFAULT_LAT
  /\ lastResp.body.point.lon # DEFAULT_LON

(***************************************************************************)
(* Concurrent requests to the cached endpoints whose upstream fetches all  *)
(* settle in the end (SpecLive)                                            *)
(***************************************************************************)
LiveWeatherQueries == { [lat |-> Null, lon |-> Null, units |-> Null] }

LiveAirQueries == { [lat |-> Null, lon |-> Null] }

LiveAlertQueries == { AlertQuery(Null, Null, Null, Null) }

LiveOrders == {<<1>>, <<1, 2, 3>>}

LiveFailures == {<<1, <<>>>>, <<3, <<1, 2>>>>}

\* the await of invocation r ends: every fetch has answered, or one has failed
Settle(r) ==
  \/ \E f \in LiveFailures : Reject(r, f[1], f[2])
  \/ \E o \in LiveOrders : Resume(r, o)

NextLive ==
  \/ \E r \in Reqs, q \in LiveWeatherQueries : WeatherStart(r, q)
  \/ \E r \in Reqs, q \in LiveAirQueries : AirStart(r, q)
  \/ \E r \in Reqs, q \in LiveAlertQueries : AlertsStart(r, q)
  \/ \E r \in Reqs : Settle(r)
  \/ Tick

\* every fetch issued eventually resolves or rejects, and the continuation of
\* a settled await is run
SpecLive == Init /\ [][NextLive]_vars /\ \A r \in Reqs : WF_vars(Settle(r))

Answered == {r \in Reqs : reqs[r].pc = "done"}

\* the step is the response of request r
Responds(r) == Busy(r) /\ ~Busy(r)'

\* the fetches of the request that had answered or failed when it responded
SettledFetches(got) == Len(got.order) + (IF got.failed # 0 THEN 1 ELSE 0)

\* C27 as stated, the part on fetches that never complete: a request responds
\* only once every upstream fetch it issued has completed.
C27_AsStated ==
  [][\A r \in Reqs :
       Responds(r) => SettledFetches(lastResp'.got) = reqs[r].nfetch]_vars

\* C27 amended: a request is answered exactly once, with 200 and data or 500
\* and the error body, and every request whose fetches all settle is
\* answered; it answers 200 only when every fetch it issued has succeeded
\* and 500 only when one has failed, whatever the others do.
C27_OneResponse ==
  /\ [](lastResp.n = Cardinality(Answered))
  /\ [](lastResp.n > 0 =>
          \/ lastResp.status = 200 /\ "error" \notin DOMAIN lastResp.body
          \/ lastResp.status = 500 /\ lastResp.body = ErrorBody(lastResp.ep))
  /\ [][/\ lastResp'.n \in {lastResp.n, lastResp.n + 1}
        /\ Answered \subseteq Answered'
        /\ lastResp'.n = lastResp.n + 1 =>
             /\ lastResp'.req \notin Answered
             /\ Answered' = Answered \cup {lastResp'.req}
        /\ \A r \in Reqs :
             Responds(r) =>
                /\ lastResp'.req = r
                /\ lastResp'.status = 200 =>
                     lastResp'.got.failed = 0 /\ Len(lastResp'.got.order) = reqs[r].nfetch
                /\ lastResp'.status = 500 => lastResp'.got.failed # 0]_vars
  /\ \A r \in Reqs : Busy(r) ~> (r \in Answered)

\* the first request is still waiting for its upstream while the second,
\* which arrived later, has been answered with a fresh result
C27_Witness ==
  /\ Busy(1)
  /\ 2 \in Answered
  /\ lastResp.req = 2
  /\ lastResp.status = 200
  /\ ~lastResp.hit
  /\ reqs[1].now < lastResp.now

(***************************************************************************)
(* Concurrent writes to one key (Spec)                                     *)
(***************************************************************************)
\* C28 as stated: a write stores an expiresAt greater than or equal to the
\* expiresAt of the entry it overwrites.
C28_FreshnessMonotone ==
  [][\A k \in DOMAIN cache :
       k \in DOMAIN cache' /\ cache'[k].expiresAt >= cache[k].expiresAt]_vars

(***************************************************************************)
(* The point of an /api/alerts response (SpecQuery)                        *)
(***************************************************************************)
OkAlerts == lastResp.n > 0 /\ lastResp.ep = "alerts" /\ lastResp.status = 200

\* the items of a result for the state and the point out of what the feeds
\* serve
ItemsFor(state, lat, lon) == Cap(PolyStage(StateStage(Deduped, state), lat, lon))

\* C29 as stated: every successful /api/alerts response, fresh or from the
\* cache, has the point of its own request and the items polygon-filtered
\* against that point.
C29_AsStated ==
  OkAlerts =>
     /\ lastResp.body.point = [lat |-> lastResp.lat, lon |-> lastResp.lon]
     /\ lastResp.body.items = ItemsFor(lastResp.state, lastResp.lat, lastResp.lon)

\* C29 amended: a freshly computed response has the point of its own
\* request and items filtered against it; a response served from the cache
\* has the request's state, a point whose coordinates equal the request's
\* after rounding to 2 decimals, and items filtered against that point.
C29_OwnPoint ==
  OkAlerts =>
     /\ lastResp.body.state = lastResp.state
     /\ ~lastResp.hit =>
          lastResp.body.point = [lat |-> lastResp.lat, lon |-> lastResp.lon]
     /\ toFixed2(lastResp.body.point.lat) = toFixed2(lastResp.lat)
     /\ toFixed2(lastResp.body.point.lon) = toFixed2(lastResp.lon)
     /\ lastResp.body.items =
          ItemsFor(lastResp.state, lastResp.body.point.lat, lastResp.body.point.lon)

\* a request answered from the cache with the point of another request
C29_Witness ==
  /\ OkAlerts
  /\ lastResp.hit
  /\ lastResp.body.point.lat # lastResp.lat
  /\ lastResp.body.point.lon = lastResp.lon

(***************************************************************************)
(* The user store and /api/auth/register (SpecUsers).  A request body is   *)
(* the record of its username, password and displayName, strings or null.  *)
(***************************************************************************)
\* /^[a-z0-9_]{3,20}$/
ValidUsername(uname) ==
  /\ Len(uname) >= 3
  /\ Len(uname) <= 20
  /\ \A i \in 1..Len(uname) : uname[i] \in LowerSet \cup DigitSet \cup {"_"}

\* String(username || '').trim().toLowerCase()
usernameOf(body) == toLowerCase(trim(OrEmpty(body.username)))

\* a lookup that finds no record
TakenNever(us, uname) == FALSE

\* users.find(u => u.username === uname)
Taken(us, uname) == \E i \in 1..Len(us) : us[i].username = uname

\* hashPassword(password) with the salt drawn
hashPassword(password, salt) == [salt |-> salt, hash |-> <<"pbkdf2", salt, password>>]

\* the response of the handler, with the request body it answers
RegisterResp(input, status, body) ==
  [(NoResp @@ ("input" :> input))
     EXCEPT !.n = lastResp.n + 1, !.ep = "register", !.status = status, !.body = body,
            !.now = clock]

\* app.post('/api/auth/register') with the salt that crypto.randomBytes
\* gives and with whether writing users.json succeeds
Register(body, salt, written) ==
  LET uname == usernameOf(body)
      hp == hashPassword(OrEmpty(body.password), salt)
      user == [username |-> uname,
               displayName |-> IF Truthy(body.displayName) THEN body.displayName[1] ELSE uname,
               passwordHash |-> hp.hash, salt |-> hp.salt, createdAt |-> clock]
  IN /\ IF ~ValidUsername(uname)
        THEN /\ lastResp' = RegisterResp(body, 400, [error |-> "Invalid username"])
             /\ UNCHANGED users
        ELSE IF Len(OrEmpty(body.password)) < 6
        THEN /\ lastResp' = RegisterResp(body, 400, [error |-> "Password too short"])
             /\ UNCHANGED users
        ELSE IF Taken(users, uname)
        THEN /\ lastResp' = RegisterResp(body, 409, [error |-> "Username taken"])
             /\ UNCHANGED users
        ELSE IF ~written
        THEN /\ lastResp' = RegisterResp(body, 500, [error |-> "Failed to register"])
             /\ UNCHANGED users
        ELSE /\ users' = Append(users, user)
             /\ lastResp' = RegisterResp(body, 200,
                                          [username |-> user.username,
                                           displayName |-> user.displayName,
                                           createdAt |-> user.createdAt,
                                           cookie |-> [sub |-> uname]])
     /\ UNCHANGED <<cache, clock, upstream, reqs, calls, writes>>

Salts == {"s1", "s2"}

PwSecret == Some(<<"s", "e", "c", "r", "e", "t">>)

RegisterBody(username, password, displayName) ==
  [username |-> username, password |-> password, displayName |-> displayName]

\* usernames that are missing, valid, valid once trimmed and lower-cased,
\* too short, with a character outside the pattern; passwords that are
\* missing, too short, long enough
RegisterBodies ==
  { RegisterBody(Null, PwSecret, Null),
    RegisterBody(Some(<<"b", "o", "b">>), PwSecret, Null),
    RegisterBody(Some(<<" ", "B", "o", "b", " ">>), PwSecret, Some(<<"B">>)),
    RegisterBody(Some(<<"a", "l">>), PwSecret, Null),
    RegisterBody(Some(<<"a", "n", "n", "_", "1">>), PwSecret, Null),
    RegisterBody(Some(<<"a", " ", "b">>), PwSecret, Null),
    RegisterBody(Some(<<"b", "o", "b">>), Some(<<"1", "2", "3", "4", "5">>), Null),
    RegisterBody(Some(<<"a", "n", "n", "_", "1">>), Null, Null) }

\* most register requests of a run
MaxRegisters == 3

NextUsers ==
  \E body \in RegisterBodies, salt \in Salts, written \in BOOLEAN :
    lastResp.n < MaxRegisters /\ Register(body, salt, written)

SpecUsers == Init /\ [][NextUsers]_vars

\* the username of a body by the rule of the claim, and whether it is valid
NameAsClaimed(body) == IF body.username = Null THEN <<>> ELSE toLowerCase(trim(body.username[1]))

UsernamesOf(us) == {us[i].username : i \in 1..Len(us)}

\* C30: no two records of the user store have the same username; a register
\* request whose username, trimmed and lower-cased, is in the store answers
\* 409, one with an invalid username or a password of fewer than 6 characters
\* answers 400, and both leave the store as it was.
C30_UniqueUsernames ==
  /\ [](\A i, j \in 1..Len(users) : i # j => users[i].username # users[j].username)
  /\ [][(lastResp'.n = lastResp.n + 1 /\ lastResp'.ep = "register") =>
             LET body == lastResp'.input
                 name == NameAsClaimed(body)
                 invalid == \/ Len(name) < 3
                            \/ Len(name) > 20
                            \/ \E i \in 1..Len(name) :
                                 name[i] \notin LowerSet \cup DigitSet \cup {"_"}
                 short == body.password = Null \/ Len(body.password[1]) < 6
             IN /\ (invalid \/ short) => lastResp'.status = 400 /\ users' = users
                /\ (~invalid /\ ~short /\ name \in UsernamesOf(users)) =>
                      lastResp'.status = 409 /\ users' = users
                /\ (~invalid /\ ~short /\ name \notin UsernamesOf(users)) =>
                      \/ lastResp'.status = 500 /\ users' = users
                      \/ /\ lastResp'.status = 200
                         /\ Len(users') = Len(users) + 1
                         /\ SubSeq(users', 1, Len(users)) = users
                         /\ users'[Len(users')].username = name]_vars

\* a request for a username written in another case and with spaces around
\* it than the stored one was answered 409 with two users in the store
C30_Witness ==
  /\ lastResp.ep = "register"
  /\ lastResp.status = 409
  /\ lastResp.input.username # Null
  /\ lastResp.input.username[1] \notin UsernamesOf(users)
  /\ Len(users) = 2

====
